---- MODULE Spec2Model ----
(***************************************************************************)
(* warp2api: the credential pool, its scheduler and the request dispatch   *)
(* loop (application/services/token_rotation_service.py), the per-account  *)
(* lock (token_lock_service.py) and the account refresh of the pool        *)
(* service (token_pool_service.py), which the admin routes and the health  *)
(* monitor call.                                                           *)
(*                                                                         *)
(* The program runs on one asyncio event loop: the code between two awaits *)
(* is one atomic step, and every action below is one such step.  Time is a *)
(* clock of seconds; the step that completes an exchange says how long it  *)
(* took, and Elapse lets idle time pass.                                   *)
(***************************************************************************)
EXTENDS Integers, Sequences, FiniteSets, TLC

(***************************************************************************)
(* Bounds of the model.                                                    *)
(***************************************************************************)
MaxTokens == 2        \* account rows ever created (AUTOINCREMENT ids)
MaxDispatch == 2      \* requests dispatched in one behaviour of Spec
MaxTime == 200        \* the clock of Spec stops here
MaxRefresh == 1       \* pool-service refreshes started in one behaviour of Spec
MaxPool == 3          \* accounts of a drawn pool (SpecSched, SpecEval)
MaxSeqRequests == 6   \* sequential requests on a drawn pool (SpecSched)
MaxEvalRequests == 1  \* requests on a drawn pool (SpecEval)
MaxPoolRefresh == 3   \* refreshes started in one behaviour of SpecPool

(***************************************************************************)
(* Program constants.                                                      *)
(***************************************************************************)
_QUOTA_COOLDOWN_SECONDS == 600
_COOLDOWN_SECONDS == 180
_UNHEALTHY_FAILURE_THRESHOLD == 3

TokenIds == 1..(IF MaxTokens >= MaxPool THEN MaxTokens ELSE MaxPool)
Reqs == {"r1", "r2"}                  \* concurrent dispatch tasks
RefreshTokens == {"rt-a", "rt-b"}     \* refresh-token strings
Callers == {"admin"}                  \* callers of the pool service's refresh
AllCallers == {"admin", "monitor"}    \* the admin routes and the health monitor
MaxTokenAttempts == {1, 2}            \* the max_token_attempts argument

Null == -1                            \* SQL NULL / Python None of a number
NoToken == ""                         \* an absent string

VARIABLES
    tokens,      \* token_accounts: id -> row, for the rows that exist
    nextId,      \* AUTOINCREMENT counter of token_accounts
    health,      \* token_health_snapshots: token_id -> snapshot
    cursor,      \* app_state["scheduler.last_token_id"], 0 when unset
    locks,       \* _LOCKS: id -> the dispatch task holding the lock, or "free"
    now,         \* the clock
    pc,          \* per dispatch task: idle, wait_lock, refreshing, done
    cands,       \* per dispatch task: the candidates of its request
    idx,         \* per dispatch task: the candidate being attempted
    attempts,    \* per dispatch task: the attempts trace
    result,      \* per dispatch task: the result returned
    calls,       \* per dispatch task: exchanges and sends started by its request
    dispatched,  \* number of requests dispatched so far
    refreshed,   \* number of pool-service refreshes started so far
    rf,          \* per caller of TokenPoolService.refresh_token: its progress
    _states,     \* STORE._states: session key -> (BridgeState object, expiry)
    bridge,      \* the BridgeState objects created so far: object -> fields
    nextState,   \* the next BridgeState object (and uuid) to be created
    got,         \* per request: the key it carried and the state it was given
    events,      \* the decoded SSE events the upstream sends for a chat request
    bridge_resp, \* what send_warp_protobuf_request returned for them
    completion,  \* what execute_chat_completions returned to the caller
    history,     \* req.messages of a chat completion request
    reordered,   \* reorder_messages_for_anthropic(req.messages)
    _MONITOR_TASK, \* the monitor task: none, or where _run_monitor stands
    _STOP_EVENT,   \* the stop event: none, clear or set
    probes,        \* the probes of the current cycle still in flight
    sleep_left,    \* seconds left of the monitor's inter-cycle sleep
    cycles,        \* probe cycles started so far
    stopping,      \* stop_monitor: idle, awaiting the task, or returned
    sse,           \* the items stream_openai_sse yielded, in order
    anthropic_sse  \* the events _openai_sse_to_anthropic_sse yielded for them

\* The state of the token pool and its dispatch, and of the session store.
poolVars == <<tokens, nextId, health, cursor, locks, now, pc, cands, idx,
              attempts, result, calls, dispatched, refreshed, rf>>
sessionVars == <<_states, bridge, nextState, got>>

\* The state of the chat gateway's handling of one completion request.
textVars == <<events, bridge_resp, completion>>
historyVars == <<history, reordered>>
monitorVars == <<_MONITOR_TASK, _STOP_EVENT, probes, sleep_left, cycles, stopping>>
streamVars == <<sse, anthropic_sse>>
gatewayVars == <<textVars, historyVars, monitorVars, streamVars>>

vars == <<tokens, nextId, health, cursor, locks, now, pc, cands, idx,
          attempts, result, calls, dispatched, refreshed, rf,
          _states, bridge, nextState, got, gatewayVars>>

(***************************************************************************)
(* Error messages.  A message is modelled by the markers the code searches *)
(* for in its lower-cased text.                                            *)
(***************************************************************************)
Markers(err) ==
    CASE err = "No remaining quota" -> {"no remaining quota", "quota", "remain"}
      [] err = "No AI requests remaining" -> {"no ai requests remaining", "remain"}
      [] err = "quota exhausted" -> {"quota", "exhaust"}
      [] err = "invalid_grant" -> {"invalid_grant"}
      [] err = "Invalid API key" -> {"invalid api key"}
      [] err = "timeout" -> {"timeout"}
      [] OTHER -> {}

Contains(err, marker) == marker \in Markers(err)

Result(ok, status_code, error) ==
    [ok |-> ok, status_code |-> status_code, error |-> error]

\* What the transport can return for one send.
UpstreamResults ==
    { Result(TRUE, 200, ""),
      Result(FALSE, 0, "timeout"),
      Result(FALSE, 401, ""),
      Result(FALSE, 403, ""),
      Result(FALSE, 429, "Too Many Requests"),
      Result(FALSE, 429, "No remaining quota"),
      Result(FALSE, 500, ""),
      Result(FALSE, 400, "invalid_grant"),
      Result(FALSE, 400, "Invalid API key"),
      Result(FALSE, 400, "bad request") }

\* The outcomes drawn where requests run concurrently: one that returns, one
\* that rotates on quota, one that rotates on a rate limit, one that fails
\* without rotating.
PoolResults ==
    { Result(TRUE, 200, ""),
      Result(FALSE, 429, "No remaining quota"),
      Result(FALSE, 429, "Too Many Requests"),
      Result(FALSE, 500, "") }

\* What a failed refresh inside a dispatch attempt raises.
RefreshErrors == {"invalid_grant", "refresh returned empty token"}

(***************************************************************************)
(* Outcome classification of token_rotation_service.                       *)
(***************************************************************************)
_should_rotate_token(res) ==
    \/ res.status_code \in {401, 403, 429}
    \/ Contains(res.error, "no remaining quota")
    \/ Contains(res.error, "no ai requests remaining")
    \/ Contains(res.error, "invalid api key")

_is_quota_error(res) ==
    \/ res.status_code = 429
    \/ Contains(res.error, "no remaining quota")
    \/ Contains(res.error, "no ai requests remaining")

_status_from_result(res) ==
    IF _is_quota_error(res) THEN "quota_exhausted"
    ELSE IF res.status_code = 403 THEN "blocked"
    ELSE IF res.status_code \in {401, 429} THEN "cooldown"
    ELSE IF res.status_code >= 500 THEN "cooldown"
    ELSE IF Contains(res.error, "invalid_grant") THEN "blocked"
    ELSE "active"

(***************************************************************************)
(* Outcome classification of TokenRuntimeService.                          *)
(***************************************************************************)
is_quota_exhausted_error(status, err) ==
    \/ Contains(err, "no remaining quota")
    \/ Contains(err, "no ai requests remaining")
    \/ /\ status = 429
       /\ Contains(err, "quota")
       /\ (Contains(err, "exhaust") \/ Contains(err, "remain"))

status_from_runtime_result(res) ==
    IF is_quota_exhausted_error(res.status_code, res.error) THEN "quota_exhausted"
    ELSE IF res.status_code = 0 THEN "cooldown"
    ELSE IF res.status_code = 403 THEN "blocked"
    ELSE IF res.status_code \in {401, 429} THEN "cooldown"
    ELSE IF res.status_code >= 500 THEN "cooldown"
    ELSE IF Contains(res.error, "invalid_grant") THEN "blocked"
    ELSE "active"

\* The code field of parse_runtime_request_error.
parse_runtime_request_error(res) ==
    IF Contains(res.error, "invalid_grant") THEN "invalid_grant"
    ELSE IF is_quota_exhausted_error(res.status_code, res.error) THEN "quota_exhausted"
    ELSE IF Contains(res.error, "timeout") THEN "timeout"
    ELSE IF res.status_code # 0 THEN "http_" \o ToString(res.status_code)
    ELSE "request_failed"

\* TokenRuntimeService.mark_runtime_request_result on the rows tk at time t.
mark_runtime_request_result(tk, id, res, t) ==
    IF id \notin DOMAIN tk THEN tk
    ELSE IF res.ok THEN
        [tk EXCEPT ![id] =
            [@ EXCEPT !.use_count = @ + 1, !.status = "active",
                      !.error_count = 0, !.last_error_code = "",
                      !.last_success_at = t, !.last_check_at = t,
                      !.cooldown_until = 0]]
    ELSE
        LET status == status_from_runtime_result(res)
            limit == tk[id].quota_limit
            failed == [tk[id] EXCEPT
                         !.status = status,
                         !.error_count = @ + 1,
                         !.last_error_code = parse_runtime_request_error(res),
                         !.last_check_at = t,
                         !.cooldown_until =
                             IF status = "quota_exhausted" THEN t + _QUOTA_COOLDOWN_SECONDS
                             ELSE IF status = "cooldown" THEN t + _COOLDOWN_SECONDS
                             ELSE 0]
        IN  [tk EXCEPT ![id] =
                IF status = "quota_exhausted"
                THEN [failed EXCEPT !.quota_remaining = 0,
                                    !.quota_used =
                                        IF limit # Null /\ limit >= 0 THEN limit ELSE @]
                ELSE failed]

(***************************************************************************)
(* Candidate selection.                                                    *)
(***************************************************************************)
Healthy(id) == IF id \in DOMAIN health THEN health[id].healthy ELSE TRUE
Failures(id) ==
    IF id \in DOMAIN health THEN health[id].consecutive_failures ELSE 0

\* The availability filter without the health condition.
EligibleIgnoringHealth(id) ==
    /\ tokens[id].status \notin {"disabled", "blocked", "quota_exhausted"}
    /\ ~(tokens[id].cooldown_until # 0 /\ tokens[id].cooldown_until > now)
    /\ tokens[id].refresh_token # NoToken

\* The availability filter of _select_pool_candidates.
Eligible(id) ==
    /\ tokens[id].status \notin {"disabled", "blocked", "quota_exhausted"}
    /\ ~(tokens[id].cooldown_until # 0 /\ tokens[id].cooldown_until > now)
    /\ ~(~Healthy(id) /\ Failures(id) >= _UNHEALTHY_FAILURE_THRESHOLD)
    /\ tokens[id].refresh_token # NoToken

\* The sort key (error_count, use_count, -last_success_ts, id), compared
\* lexicographically.
KeyLess(a, b) ==
    LET ra == tokens[a]
        rb == tokens[b]
    IN  \/ ra.error_count < rb.error_count
        \/ /\ ra.error_count = rb.error_count
           /\ \/ ra.use_count < rb.use_count
              \/ /\ ra.use_count = rb.use_count
                 /\ \/ ra.last_success_at > rb.last_success_at
                    \/ /\ ra.last_success_at = rb.last_success_at
                       /\ a < b

\* A ranking by id alone.
RankedById(S) ==
    [i \in 1..Cardinality(S) |->
        CHOOSE x \in S : Cardinality({y \in S : y < x}) = i - 1]

Ranked(S) ==
    [i \in 1..Cardinality(S) |->
        CHOOSE x \in S : Cardinality({y \in S : KeyLess(y, x)}) = i - 1]

\* A rotation that starts at the cursor instead of after it.
RotatedAtCursor(seq, last) ==
    LET n == Len(seq)
        start == IF last # 0 /\ \E i \in 1..n : seq[i] = last
                 THEN (CHOOSE i \in 1..n : seq[i] = last) - 1
                 ELSE 0
    IN  [i \in 1..n |-> seq[((start + i - 1) % n) + 1]]

\* rotated = candidates[start:] + candidates[:start], start after the cursor.
Rotated(seq, last) ==
    LET n == Len(seq)
        start == IF last # 0 /\ \E i \in 1..n : seq[i] = last
                 THEN (CHOOSE i \in 1..n : seq[i] = last) % n
                 ELSE 0
    IN  [i \in 1..n |-> seq[((start + i - 1) % n) + 1]]

Max(a, b) == IF a >= b THEN a ELSE b
Min(a, b) == IF a <= b THEN a ELSE b

_select_pool_candidates(max_token_attempts) ==
    LET S == {id \in DOMAIN tokens : Eligible(id)}
        rotated == Rotated(Ranked(S), cursor)
        ids == SubSeq(rotated, 1, Min(Len(rotated), Max(1, max_token_attempts)))
    IN  [i \in 1..Len(ids) |->
            [id |-> ids[i], refresh_token |-> tokens[ids[i]].refresh_token]]

(***************************************************************************)
(* Outcome evaluation: the row written after an attempt.                   *)
(***************************************************************************)
\* An evaluation whose ok branch leaves the error fields and the cooldown
\* as they were.
_apply_pool_result_keeping_errors(tk, id, res, t) ==
    IF id \notin DOMAIN tk THEN tk
    ELSE IF res.ok THEN
        [tk EXCEPT ![id] =
            [@ EXCEPT !.use_count = @ + 1,
                      !.status = "active",
                      !.last_success_at = t,
                      !.last_check_at = t]]
    ELSE
        [tk EXCEPT ![id] =
            [@ EXCEPT !.status = _status_from_result(res),
                      !.error_count = @ + 1,
                      !.last_error_code = ToString(res.status_code),
                      !.last_check_at = t]]

\* An evaluator that counts every outcome twice.
_apply_pool_result_counting_twice(tk, id, res, t) ==
    IF id \notin DOMAIN tk THEN tk
    ELSE IF res.ok THEN
        [tk EXCEPT ![id] =
            [@ EXCEPT !.use_count = @ + 2, !.status = "active",
                      !.error_count = 0, !.last_error_code = "",
                      !.last_success_at = t, !.last_check_at = t,
                      !.cooldown_until = 0]]
    ELSE
        LET status == _status_from_result(res)
        IN  [tk EXCEPT ![id] =
                [@ EXCEPT !.status = status,
                          !.error_count = @ + 2,
                          !.last_error_code = ToString(res.status_code),
                          !.last_check_at = t,
                          !.cooldown_until =
                              IF status = "quota_exhausted" THEN t + _QUOTA_COOLDOWN_SECONDS
                              ELSE IF status = "cooldown" THEN t + _COOLDOWN_SECONDS
                              ELSE 0]]

\* An evaluator whose failure branch looks at the status the row has.
_apply_pool_result_escalating(tk, id, res, t) ==
    IF id \notin DOMAIN tk THEN tk
    ELSE IF res.ok THEN
        [tk EXCEPT ![id] =
            [@ EXCEPT !.use_count = @ + 1, !.status = "active",
                      !.error_count = 0, !.last_error_code = "",
                      !.last_success_at = t, !.last_check_at = t,
                      !.cooldown_until = 0]]
    ELSE
        LET status == IF tk[id].status = _status_from_result(res)
                      THEN "blocked" ELSE _status_from_result(res)
        IN  [tk EXCEPT ![id] =
                [@ EXCEPT !.status = status,
                          !.error_count = @ + 1,
                          !.last_error_code = ToString(res.status_code),
                          !.last_check_at = t,
                          !.cooldown_until =
                              IF status = "quota_exhausted" THEN t + _QUOTA_COOLDOWN_SECONDS
                              ELSE IF status = "cooldown" THEN t + _COOLDOWN_SECONDS
                              ELSE 0]]

_apply_pool_result(tk, id, res, t) ==
    IF id \notin DOMAIN tk THEN tk
    ELSE IF res.ok THEN
        [tk EXCEPT ![id] =
            [@ EXCEPT !.use_count = @ + 1,
                      !.status = "active",
                      !.error_count = 0,
                      !.last_error_code = "",
                      !.last_success_at = t,
                      !.last_check_at = t,
                      !.cooldown_until = 0]]
    ELSE
        LET status == _status_from_result(res)
            cooldown_until ==
                IF status = "quota_exhausted" THEN t + _QUOTA_COOLDOWN_SECONDS
                ELSE IF status = "cooldown" THEN t + _COOLDOWN_SECONDS
                ELSE 0
        IN  [tk EXCEPT ![id] =
                [@ EXCEPT !.status = status,
                          !.error_count = @ + 1,
                          !.last_error_code = ToString(res.status_code),
                          !.last_check_at = t,
                          !.cooldown_until = cooldown_until]]

\* A refresh-error handler that maps every error to cooldown.
_apply_pool_refresh_error_to_cooldown(tk, id, msg, t) ==
    IF id \notin DOMAIN tk THEN tk
    ELSE [tk EXCEPT ![id] =
            [@ EXCEPT !.status = "cooldown",
                      !.error_count = @ + 1,
                      !.last_error_code = "refresh_error",
                      !.last_check_at = t,
                      !.cooldown_until = t + _COOLDOWN_SECONDS]]

_apply_pool_refresh_error(tk, id, msg, t) ==
    IF id \notin DOMAIN tk THEN tk
    ELSE
        LET status == IF Contains(msg, "invalid_grant") THEN "blocked" ELSE "cooldown"
        IN  [tk EXCEPT ![id] =
                [@ EXCEPT !.status = status,
                          !.error_count = @ + 1,
                          !.last_error_code = "refresh_error",
                          !.last_check_at = t,
                          !.cooldown_until =
                              IF status = "blocked" THEN 0 ELSE t + _COOLDOWN_SECONDS]]

(***************************************************************************)
(* The per-account lock.                                                   *)
(***************************************************************************)
\* A lock that never makes a task wait.
LockAlwaysFree(lk, id) == TRUE

LockFree(lk, id) == lk[id] = "free"

NoResult == [ok |-> FALSE, status_code |-> 0, error |-> "", attempts |-> <<>>]
NoCalls == [refresh |-> 0, send |-> 0]

\* The result of falling through to the generic failure of the loop.
UpstreamFailureResult ==
    [ok |-> FALSE, status_code |-> 502, error |-> "no token attempted",
     attempts |-> <<>>]

\* The result returned when no candidate is available.
EmptyPoolResult ==
    [ok |-> FALSE, status_code |-> 503,
     error |-> "token pool is empty or no active token available",
     attempts |-> <<>>]

\* The snapshot read when an account has none: get_health_snapshot() or {}.
NoSnapshot == [healthy |-> TRUE, consecutive_failures |-> 0, last_success_at |-> 0]

\* A caller of the pool service that is not inside a call; success and
\* token_id are what its last call returned.
IdleRefresh ==
    [pc |-> "idle", id |-> 0, rt |-> NoToken, started |-> 0, tries |-> 0,
     prev |-> NoSnapshot, success |-> FALSE, token_id |-> 0]

\* A caller whose call on account src has returned {"success": ...,
\* "token": get_token(id)}, after the refresh endpoint answered with rt.
Returned(tk, src, rt, success, id) ==
    [IdleRefresh EXCEPT !.id = src, !.rt = rt, !.success = success,
                        !.token_id = IF id \in DOMAIN tk THEN id ELSE 0]

NewRow(rt) ==
    [refresh_token |-> rt, status |-> "active", error_count |-> 0,
     use_count |-> 0, last_error_code |-> "", last_success_at |-> 0,
     last_check_at |-> 0, cooldown_until |-> 0,
     quota_limit |-> Null, quota_used |-> Null, quota_remaining |-> Null,
     quota_is_unlimited |-> FALSE,
     email |-> NoToken, api_key |-> NoToken, id_token |-> NoToken,
     total_limit |-> Null, used_limit |-> Null]

\* No transport result and no completion yet.
NoResponse == [ok |-> FALSE, status_code |-> 0]
NoCompletion == [object |-> ""]

GatewayInit ==
    /\ events = <<>>
    /\ bridge_resp = NoResponse
    /\ completion = NoCompletion
    /\ history = <<>>
    /\ reordered = <<>>
    /\ _MONITOR_TASK = "none"
    /\ _STOP_EVENT = "none"
    /\ probes = 0
    /\ sleep_left = 0
    /\ cycles = 0
    /\ stopping = "idle"
    /\ sse = <<>>
    /\ anthropic_sse = <<>>

\* No request has asked for a state yet.
NoState == [key |-> "", st |-> 0, at |-> 0]

\* STORE = SessionStateStore(...): an empty store, no BridgeState created.
SessionInit ==
    /\ _states = <<>>
    /\ bridge = <<>>
    /\ nextState = 1
    /\ got = [r \in Reqs |-> NoState]

Init ==
    /\ tokens = <<>>
    /\ nextId = 1
    /\ health = <<>>
    /\ cursor = 0
    /\ locks = [id \in TokenIds |-> "free"]
    /\ now = 1
    /\ pc = [r \in Reqs |-> "idle"]
    /\ cands = [r \in Reqs |-> <<>>]
    /\ idx = [r \in Reqs |-> 0]
    /\ attempts = [r \in Reqs |-> <<>>]
    /\ result = [r \in Reqs |-> NoResult]
    /\ calls = [r \in Reqs |-> NoCalls]
    /\ dispatched = 0
    /\ refreshed = 0
    /\ rf = [c \in AllCallers |-> IdleRefresh]
    /\ SessionInit
    /\ GatewayInit

(***************************************************************************)
(* TokenPoolService.add_token / TokenRepository.batch_import of one token: *)
(* INSERT OR IGNORE on the unique refresh_token.                           *)
(***************************************************************************)
AddToken(rt) ==
    /\ nextId <= MaxTokens
    /\ \A id \in DOMAIN tokens : tokens[id].refresh_token # rt
    /\ tokens' = [id \in DOMAIN tokens \cup {nextId} |->
                    IF id = nextId THEN NewRow(rt) ELSE tokens[id]]
    /\ nextId' = nextId + 1
    /\ UNCHANGED <<health, cursor, locks, now, pc, cands, idx, attempts,
                   result, calls, dispatched, refreshed, rf,
                   _states, bridge, nextState, got, gatewayVars>>

(***************************************************************************)
(* send_protobuf_with_rotation.                                            *)
(***************************************************************************)
\* Loop head for candidate i of request r, with the locks as lk and the call
\* counters as cl: store the cursor, then take the account lock and start the
\* refresh exchange, or wait for the lock.
EnterAttempt(r, cs, i, lk, cl) ==
    /\ cursor' = cs[i].id
    /\ idx' = [idx EXCEPT ![r] = i]
    /\ IF LockFree(lk, cs[i].id)
       THEN /\ locks' = [lk EXCEPT ![cs[i].id] = r]
            /\ pc' = [pc EXCEPT ![r] = "refreshing"]
            /\ calls' = [cl EXCEPT ![r].refresh = @ + 1]
       ELSE /\ locks' = lk
            /\ pc' = [pc EXCEPT ![r] = "wait_lock"]
            /\ calls' = cl

\* A new request: select the candidates; return 503 when there is none,
\* else enter the first attempt.
Dispatch(r, max_token_attempts) ==
    /\ pc[r] \in {"idle", "done"}
    /\ dispatched' = dispatched + 1
    /\ LET cs == _select_pool_candidates(max_token_attempts)
       IN  /\ cands' = [cands EXCEPT ![r] = cs]
           /\ attempts' = [attempts EXCEPT ![r] = <<>>]
           /\ IF cs = <<>>
              THEN /\ pc' = [pc EXCEPT ![r] = "done"]
                   /\ result' = [result EXCEPT ![r] = EmptyPoolResult]
                   /\ idx' = [idx EXCEPT ![r] = 0]
                   /\ calls' = [calls EXCEPT ![r] = NoCalls]
                   /\ UNCHANGED <<cursor, locks>>
              ELSE /\ result' = [result EXCEPT ![r] = NoResult]
                   /\ EnterAttempt(r, cs, 1, locks, [calls EXCEPT ![r] = NoCalls])
    /\ UNCHANGED <<tokens, nextId, health, now, refreshed, rf,
                   _states, bridge, nextState, got, gatewayVars>>

\* token_lock: a waiting task gets the lock once it is free, and starts the
\* refresh exchange.
AcquireLock(r) ==
    /\ pc[r] = "wait_lock"
    /\ LockFree(locks, cands[r][idx[r]].id)
    /\ locks' = [locks EXCEPT ![cands[r][idx[r]].id] = r]
    /\ pc' = [pc EXCEPT ![r] = "refreshing"]
    /\ calls' = [calls EXCEPT ![r].refresh = @ + 1]
    /\ UNCHANGED <<tokens, nextId, health, cursor, now, cands, idx, attempts,
                   result, dispatched, refreshed, rf,
                   _states, bridge, nextState, got, gatewayVars>>

\* Leaving an attempt without releasing the account lock.
LeaveHoldingLock(r, returns, last, trace, cl) ==
    /\ attempts' = [attempts EXCEPT ![r] = trace]
    /\ IF returns \/ idx[r] = Len(cands[r])
       THEN /\ pc' = [pc EXCEPT ![r] = "done"]
            /\ result' = [result EXCEPT ![r] =
                  [ok |-> last.ok, status_code |-> last.status_code,
                   error |-> last.error, attempts |-> trace]]
            /\ locks' = locks
            /\ calls' = cl
            /\ UNCHANGED <<cursor, idx>>
       ELSE /\ result' = result
            /\ EnterAttempt(r, cands[r], idx[r] + 1, locks, cl)

\* After an attempt on candidate idx[r]: return, or go on to the next
\* candidate.  The lock of the finished attempt is released on leaving the
\* `async with` block.
Leave(r, returns, last, trace, cl) ==
    LET released == [locks EXCEPT ![cands[r][idx[r]].id] = "free"]
    IN  /\ attempts' = [attempts EXCEPT ![r] = trace]
        /\ IF returns \/ idx[r] = Len(cands[r])
           THEN /\ pc' = [pc EXCEPT ![r] = "done"]
                /\ result' = [result EXCEPT ![r] =
                      [ok |-> last.ok, status_code |-> last.status_code,
                       error |-> last.error, attempts |-> trace]]
                /\ locks' = released
                /\ calls' = cl
                /\ UNCHANGED <<cursor, idx>>
           ELSE /\ result' = result
                /\ EnterAttempt(r, cands[r], idx[r] + 1, released, cl)

\* The refresh exchange returned an access token: send, evaluate the outcome
\* on the account row, record the attempt, and return or rotate.
AttemptCompleted(r, res, d) ==
    /\ pc[r] = "refreshing"
    /\ now' = now + d
    /\ LET c == cands[r][idx[r]]
           entry == [mode |-> "token_pool", token_id |-> c.id,
                     status_code |-> res.status_code, error |-> res.error]
       IN  /\ tokens' = _apply_pool_result(tokens, c.id, res, now')
           /\ Leave(r, res.ok \/ ~_should_rotate_token(res), res,
                    Append(attempts[r], entry),
                    [calls EXCEPT ![r].send = @ + 1])
    /\ UNCHANGED <<nextId, health, cands, dispatched, refreshed, rf,
                   _states, bridge, nextState, got, gatewayVars>>

\* The refresh exchange raised, or returned no token: the except branch.
RefreshFailed(r, msg, d) ==
    /\ pc[r] = "refreshing"
    /\ now' = now + d
    /\ LET c == cands[r][idx[r]]
           entry == [mode |-> "token_pool", token_id |-> c.id,
                     status_code |-> 0, error |-> msg]
       IN  /\ tokens' = _apply_pool_refresh_error(tokens, c.id, msg, now')
           /\ Leave(r, FALSE, Result(FALSE, 502, msg),
                    Append(attempts[r], entry), calls)
    /\ UNCHANGED <<nextId, health, cands, dispatched, refreshed, rf,
                   _states, bridge, nextState, got, gatewayVars>>

\* Idle time passes.
Elapse(d) ==
    /\ now' = now + d
    /\ UNCHANGED <<tokens, nextId, health, cursor, locks, pc, cands, idx,
                   attempts, result, calls, dispatched, refreshed, rf,
                   _states, bridge, nextState, got, gatewayVars>>

(***************************************************************************)
(* TokenPoolService.refresh_token, as called by the admin routes (refresh, *)
(* health-check, refresh-all, import-and-hydrate) and by the monitor.      *)
(***************************************************************************)
_REFRESH_RETRY_COUNT == 3
_REFRESH_ERROR_COOLDOWN_SECONDS == 180

QuotaData(limit, used, remaining) ==
    [present |-> TRUE, request_limit |-> limit, requests_used |-> used,
     requests_remaining |-> remaining, is_unlimited |-> FALSE]

\* get_request_limit raised: quota_data stays {}.
NoQuotaData ==
    [present |-> FALSE, request_limit |-> 0, requests_used |-> 0,
     requests_remaining |-> 0, is_unlimited |-> FALSE]

\* What the quota probe can report: nothing, or an exhausted quota.
QuotaReports == {NoQuotaData, QuotaData(2, 2, 0)}

\* What a failed exchange reports.
ExchangeErrors == {"invalid_grant", "timeout"}

_status_by_quota(q) ==
    IF ~q.present THEN "active"
    ELSE IF ~q.is_unlimited /\ q.request_limit >= 0
            /\ q.requests_used >= q.request_limit
         THEN "quota_exhausted"
         ELSE "active"

_quota_update_fields(row, q) ==
    IF ~q.present THEN row
    ELSE [row EXCEPT !.quota_limit = q.request_limit,
                     !.quota_used = q.requests_used,
                     !.quota_remaining = q.requests_remaining,
                     !.quota_is_unlimited = q.is_unlimited]

\* A classification that knows the invalid_refresh_token marker only.
_is_invalid_refresh_token_error(err) == Contains(err, "invalid_refresh_token")

_is_hard_invalid_refresh_error(err) ==
    \/ Contains(err, "invalid_refresh_token")
    \/ Contains(err, "invalid_grant")
    \/ Contains(err, "refresh token is invalid")

\* The code of _parse_refresh_error's result.
_parse_refresh_error(err) ==
    IF err = "" THEN "refresh_failed"
    ELSE IF Contains(err, "invalid_refresh_token") THEN "invalid_refresh_token"
    ELSE IF Contains(err, "invalid_grant") THEN "invalid_grant"
    ELSE "refresh_failed"

\* TokenRepository.find_token_id_by_refresh_token; 0 when there is none.
find_token_id_by_refresh_token(tk, rt) ==
    IF \E id \in DOMAIN tk : tk[id].refresh_token = rt
    THEN CHOOSE id \in DOMAIN tk : tk[id].refresh_token = rt
    ELSE 0

Snapshot(healthy, failures, last_success_at) ==
    [healthy |-> healthy, consecutive_failures |-> failures,
     last_success_at |-> last_success_at]

\* TokenRepository.upsert_health_snapshot
upsert_health_snapshot(h, id, snap) ==
    [k \in DOMAIN h \cup {id} |-> IF k = id THEN snap ELSE h[k]]

\* TokenRepository.delete_token: the snapshot goes with the row.
delete_token(f, id) == [k \in DOMAIN f \ {id} |-> f[k]]

\* The fields written by a successful refresh.
Refreshed(row, q, t) ==
    _quota_update_fields(
        [row EXCEPT !.status = _status_by_quota(q),
                    !.error_count = 0,
                    !.last_error_code = "",
                    !.last_success_at = t,
                    !.last_check_at = t], q)

\* A refresh that updates the canonical row and keeps the source row.
RefreshSuccessTokensKeepingSource(tk, id, rt, q, t) ==
    LET existing == find_token_id_by_refresh_token(tk, rt)
    IN  IF existing # 0 /\ existing # id
        THEN [tk EXCEPT ![existing] = Refreshed(@, q, t)]
        ELSE IF id \in DOMAIN tk
        THEN [tk EXCEPT ![id] = Refreshed([@ EXCEPT !.refresh_token = rt], q, t)]
        ELSE tk

\* A refresh that stores the returned token on its own row without looking
\* the token up first.
RefreshSuccessTokensWithoutLookup(tk, id, rt, q, t) ==
    IF id \in DOMAIN tk
    THEN [tk EXCEPT ![id] = Refreshed([@ EXCEPT !.refresh_token = rt], q, t)]
    ELSE tk

\* The account rows after a successful refresh of id that returned rt.
RefreshSuccessTokens(tk, id, rt, q, t) ==
    LET existing == find_token_id_by_refresh_token(tk, rt)
    IN  IF existing # 0 /\ existing # id
        THEN delete_token([tk EXCEPT ![existing] = Refreshed(@, q, t)], id)
        ELSE IF id \in DOMAIN tk
        THEN [tk EXCEPT ![id] = Refreshed([@ EXCEPT !.refresh_token = rt], q, t)]
        ELSE tk

RefreshSuccessHealth(tk, h, id, rt, t) ==
    LET existing == find_token_id_by_refresh_token(tk, rt)
    IN  IF existing # 0 /\ existing # id
        THEN delete_token(upsert_health_snapshot(h, existing, Snapshot(TRUE, 0, t)), id)
        ELSE upsert_health_snapshot(h, id, Snapshot(TRUE, 0, t))

\* The account rows after a refresh of id, started at t, that failed with err
\* at time cur.
RefreshFailureTokens(tk, id, err, t, cur) ==
    IF id \notin DOMAIN tk THEN tk
    ELSE LET hard == _is_hard_invalid_refresh_error(err)
         IN  [tk EXCEPT ![id] =
                [@ EXCEPT !.status = IF hard THEN "blocked" ELSE "cooldown",
                          !.error_count = @ + 1,
                          !.last_check_at = t,
                          !.last_error_code = _parse_refresh_error(err),
                          !.cooldown_until =
                              IF hard THEN 0
                              ELSE cur + _REFRESH_ERROR_COOLDOWN_SECONDS]]

_PER_TOKEN_REFRESH_INTERVAL == 180

\* _run_monitor: the accounts a monitor cycle probes.
MonitorDue(id) ==
    /\ tokens[id].status \in {"active", "cooldown", "quota_exhausted"}
    /\ ~(tokens[id].last_check_at > 0
         /\ now - tokens[id].last_check_at < _PER_TOKEN_REFRESH_INTERVAL)

\* _check_one_token: the snapshot the monitor writes once health_check_token
\* has returned; h is the snapshots as the pool service left them.
_check_one_token(h, c, id, ok, prev, t) ==
    IF c # "monitor" THEN h
    ELSE IF ok THEN upsert_health_snapshot(h, id, Snapshot(TRUE, 0, t))
    ELSE upsert_health_snapshot(h, id,
            Snapshot(FALSE, prev.consecutive_failures + 1, prev.last_success_at))

\* refresh_token up to its first await: read the stored refresh token, note
\* the time, start the first exchange.  The monitor calls it for the due
\* accounts, after reading their snapshot.
RefreshBegin(c, id) ==
    /\ rf[c].pc = "idle"
    /\ id \in DOMAIN tokens
    /\ tokens[id].refresh_token # NoToken
    /\ c = "monitor" => MonitorDue(id)
    /\ rf' = [rf EXCEPT ![c] =
                [IdleRefresh EXCEPT !.pc = "exchanging", !.id = id,
                                    !.rt = tokens[id].refresh_token,
                                    !.started = now, !.tries = 1,
                                    !.prev = IF c = "monitor" /\ id \in DOMAIN health
                                             THEN health[id] ELSE NoSnapshot]]
    /\ refreshed' = refreshed + 1
    /\ UNCHANGED <<tokens, nextId, health, cursor, locks, now, pc, cands, idx,
                   attempts, result, calls, dispatched,
                   _states, bridge, nextState, got, gatewayVars>>

\* _refresh_with_retry: an exchange failed and another one is started.
RefreshRetry(c) ==
    /\ rf[c].pc = "exchanging"
    /\ rf[c].tries < _REFRESH_RETRY_COUNT
    /\ rf' = [rf EXCEPT ![c].tries = @ + 1]
    /\ UNCHANGED <<tokens, nextId, health, cursor, locks, now, pc, cands, idx,
                   attempts, result, calls, dispatched, refreshed,
                   _states, bridge, nextState, got, gatewayVars>>

\* The account id a successful refresh of id reports: the canonical row when
\* the refresh merged.
RefreshResultId(tk, id, rt) ==
    LET existing == find_token_id_by_refresh_token(tk, rt)
    IN  IF existing # 0 /\ existing # id THEN existing ELSE id

\* An exchange returned an access token, with refresh token new_rt (NoToken
\* when the endpoint returned none); the quota probe returned q.
RefreshSucceeded(c, new_rt, q) ==
    /\ rf[c].pc = "exchanging"
    /\ LET new_refresh == IF new_rt = NoToken THEN rf[c].rt ELSE new_rt
       IN  /\ tokens' = RefreshSuccessTokens(tokens, rf[c].id, new_refresh, q,
                                             rf[c].started)
           /\ health' = _check_one_token(
                            RefreshSuccessHealth(tokens, health, rf[c].id,
                                                 new_refresh, rf[c].started),
                            c, rf[c].id, TRUE, rf[c].prev, now)
           /\ rf' = [rf EXCEPT ![c] =
                        Returned(tokens', rf[c].id, new_refresh, TRUE,
                                 RefreshResultId(tokens, rf[c].id, new_refresh))]
    /\ UNCHANGED <<nextId, cursor, locks, now, pc, cands, idx, attempts,
                   result, calls, dispatched, refreshed,
                   _states, bridge, nextState, got, gatewayVars>>

\* The last exchange of the retry loop failed with err.
RefreshExhausted(c, err) ==
    /\ rf[c].pc = "exchanging"
    /\ rf[c].tries = _REFRESH_RETRY_COUNT
    /\ tokens' = RefreshFailureTokens(tokens, rf[c].id, err, rf[c].started, now)
    /\ health' = _check_one_token(
                     upsert_health_snapshot(health, rf[c].id, Snapshot(FALSE, 1, 0)),
                     c, rf[c].id, FALSE, rf[c].prev, now)
    /\ rf' = [rf EXCEPT ![c] =
                Returned(tokens', rf[c].id, rf[c].rt, FALSE, rf[c].id)]
    /\ UNCHANGED <<nextId, cursor, locks, now, pc, cands, idx, attempts,
                   result, calls, dispatched, refreshed,
                   _states, bridge, nextState, got, gatewayVars>>

(***************************************************************************)
(* The quota report (warp_quota.get_request_limit) and the quota probe     *)
(* (TokenPoolService.refresh_token_quota).                                 *)
(***************************************************************************)
\* The report built from the upstream's requestLimit,
\* requestsUsedSinceLastRefresh and isUnlimited.
get_request_limit(requestLimit, requestsUsed, isUnlimited) ==
    LET request_limit == IF isUnlimited THEN -1 ELSE requestLimit
        used == IF isUnlimited THEN 0 ELSE requestsUsed
    IN  [present |-> TRUE, request_limit |-> request_limit,
         requests_used |-> used,
         requests_remaining |->
             IF request_limit >= 0 THEN request_limit - used ELSE -1,
         is_unlimited |-> isUnlimited]

\* What the upstream can report for an account: quota left, quota used up,
\* more used than the limit, unlimited; or the probe fails.
UpstreamQuotas ==
    { NoQuotaData,
      get_request_limit(2, 1, FALSE),
      get_request_limit(2, 2, FALSE),
      get_request_limit(2, 3, FALSE),
      get_request_limit(0, 0, TRUE) }

\* refresh_token_quota up to its await.
QuotaProbeBegin(c, id) ==
    /\ rf[c].pc = "idle"
    /\ id \in DOMAIN tokens
    /\ tokens[id].refresh_token # NoToken
    /\ rf' = [rf EXCEPT ![c] =
                [IdleRefresh EXCEPT !.pc = "probing", !.id = id,
                                    !.rt = tokens[id].refresh_token,
                                    !.started = now, !.tries = 1]]
    /\ refreshed' = refreshed + 1
    /\ UNCHANGED <<tokens, nextId, health, cursor, locks, now, pc, cands, idx,
                   attempts, result, calls, dispatched,
                   _states, bridge, nextState, got, gatewayVars>>

\* The exchange returned an access token and the quota report q was read.
QuotaProbeSucceeded(c, q) ==
    /\ rf[c].pc = "probing"
    /\ q.present
    /\ tokens' =
          IF rf[c].id \in DOMAIN tokens
          THEN [tokens EXCEPT ![rf[c].id] =
                  _quota_update_fields(
                      [@ EXCEPT !.status = _status_by_quota(q),
                                !.last_check_at = rf[c].started], q)]
          ELSE tokens
    /\ rf' = [rf EXCEPT ![c] =
                Returned(tokens', rf[c].id, rf[c].rt, TRUE, rf[c].id)]
    /\ UNCHANGED <<nextId, health, cursor, locks, now, pc, cands, idx,
                   attempts, result, calls, dispatched, refreshed,
                   _states, bridge, nextState, got, gatewayVars>>

\* The exchange or the quota report raised: nothing is written.
QuotaProbeFailed(c) ==
    /\ rf[c].pc = "probing"
    /\ rf' = [rf EXCEPT ![c] = IdleRefresh]
    /\ UNCHANGED <<tokens, nextId, health, cursor, locks, now, pc, cands, idx,
                   attempts, result, calls, dispatched, refreshed,
                   _states, bridge, nextState, got, gatewayVars>>

(***************************************************************************)
(* The admin routes on one account: status update and delete.              *)
(***************************************************************************)
ALLOWED_STATUSES == {"active", "cooldown", "blocked", "quota_exhausted", "disabled"}

\* TokenPoolService.update_token: only the status is written.
update_token(id, status) ==
    /\ id \in DOMAIN tokens
    /\ status \in ALLOWED_STATUSES
    /\ tokens' = [tokens EXCEPT ![id].status = status]
    /\ UNCHANGED <<nextId, health, cursor, locks, now, pc, cands, idx,
                   attempts, result, calls, dispatched, refreshed, rf,
                   _states, bridge, nextState, got, gatewayVars>>

\* TokenPoolService.delete_token
DeleteToken(id) ==
    /\ id \in DOMAIN tokens
    /\ tokens' = delete_token(tokens, id)
    /\ health' = delete_token(health, id)
    /\ UNCHANGED <<nextId, cursor, locks, now, pc, cands, idx, attempts,
                   result, calls, dispatched, refreshed, rf,
                   _states, bridge, nextState, got, gatewayVars>>

(***************************************************************************)
(* SpecRotate: dispatches from construction while the admin routes refresh *)
(* accounts, against a refresh endpoint that may rotate the refresh token, *)
(* and delete accounts.  Every upstream call answers ok.                   *)
(***************************************************************************)
MaxRotateDispatch == 2
MaxRotateRefresh == 1

NextRotate ==
    \/ \E rt \in RefreshTokens : AddToken(rt)
    \/ \E r \in Reqs :
          dispatched < MaxRotateDispatch /\ Dispatch(r, 2)
    \/ \E r \in Reqs : AcquireLock(r)
    \/ \E r \in Reqs : AttemptCompleted(r, Result(TRUE, 200, ""), 0)
    \/ \E c \in Callers, id \in TokenIds :
          refreshed < MaxRotateRefresh /\ RefreshBegin(c, id)
    \/ \E c \in Callers, rt \in RefreshTokens \cup {NoToken} :
          RefreshSucceeded(c, rt, NoQuotaData)
    \/ \E id \in TokenIds : DeleteToken(id)

SpecRotate == Init /\ [][NextRotate]_vars

(***************************************************************************)
(* TokenRepository.batch_import_accounts: accounts with their metadata.    *)
(***************************************************************************)
MaxBatch == 2    \* accounts in one import request

\* One account of an import request; "" and Null stand for a missing key.
Account(refresh_token, email, api_key, id_token, total_limit, used_limit) ==
    [refresh_token |-> refresh_token, email |-> email, api_key |-> api_key,
     id_token |-> id_token, total_limit |-> total_limit,
     used_limit |-> used_limit]

\* The accounts an import request can carry.
ImportAccounts ==
    { Account("rt-a", "a@x", "key-1", "idt-1", 100, 10),
      Account("'rt-a'", "b@x", "", "", Null, 0),
      Account("rt-a", "", "", "", Null, Null),
      Account("rt-b", "", "key-2", "", 50, Null),
      Account("", "c@x", "", "", Null, Null) }

BatchInputs ==
    UNION {[1..n -> ImportAccounts] : n \in 1..MaxBatch}

\* str(token).strip().strip("'").strip('"') on the tokens of ImportAccounts.
CleanToken(raw) ==
    IF raw = "'rt-a'" THEN "rt-a" ELSE raw

\* SQL COALESCE(value, stored), none being the NULL of the column's type.
COALESCE(value, stored, none) ==
    IF value # none THEN value ELSE stored

\* The loop body of batch_import_accounts for one account with a token: the
\* INSERT OR IGNORE, and the UPDATE when the insert was ignored.
ImportAccount(tk, next, acc) ==
    LET token == CleanToken(acc.refresh_token)
        existing == {id \in DOMAIN tk : tk[id].refresh_token = token}
    IN  IF existing = {}
        THEN [tokens |->
                 [id \in DOMAIN tk \cup {next} |->
                     IF id = next
                     THEN [NewRow(token) EXCEPT
                              !.email = acc.email, !.api_key = acc.api_key,
                              !.id_token = acc.id_token,
                              !.total_limit = acc.total_limit,
                              !.used_limit = acc.used_limit]
                     ELSE tk[id]],
              nextId |-> next + 1]
        ELSE [tokens |->
                 [id \in DOMAIN tk |->
                     IF id \in existing
                     THEN [tk[id] EXCEPT
                              !.email = COALESCE(acc.email, @, NoToken),
                              !.api_key = COALESCE(acc.api_key, @, NoToken),
                              !.id_token = COALESCE(acc.id_token, @, NoToken),
                              !.total_limit = COALESCE(acc.total_limit, @, Null),
                              !.used_limit = COALESCE(acc.used_limit, @, Null)]
                     ELSE tk[id]],
              nextId |-> next]

RECURSIVE ImportAccounts_loop(_, _, _, _)
\* The loop of batch_import_accounts over the accounts, with the set seen.
ImportAccounts_loop(tk, next, accounts, seen) ==
    IF accounts = <<>> THEN [tokens |-> tk, nextId |-> next]
    ELSE LET token == CleanToken(Head(accounts).refresh_token)
         IN  IF token = "" \/ token \in seen
             THEN ImportAccounts_loop(tk, next, Tail(accounts), seen)
             ELSE LET out == ImportAccount(tk, next, Head(accounts))
                  IN  ImportAccounts_loop(out.tokens, out.nextId,
                                          Tail(accounts), seen \cup {token})

\* TokenPoolService.batch_import_accounts
batch_import_accounts(accounts) ==
    LET out == ImportAccounts_loop(tokens, nextId, accounts, {})
    IN  /\ out.nextId <= MaxTokens + 1
        /\ tokens' = out.tokens
        /\ nextId' = out.nextId
        /\ UNCHANGED <<health, cursor, locks, now, pc, cands, idx, attempts,
                       result, calls, dispatched, refreshed, rf,
                       _states, bridge, nextState, got, gatewayVars>>

\* SpecImport: the pool from construction under the import of accounts, the
\* import of bare tokens, the admin status update and delete.
NextImport ==
    \/ \E accounts \in BatchInputs : batch_import_accounts(accounts)
    \/ \E rt \in RefreshTokens : AddToken(rt)
    \/ \E id \in TokenIds, status \in ALLOWED_STATUSES : update_token(id, status)
    \/ \E id \in TokenIds : DeleteToken(id)

SpecImport == Init /\ [][NextImport]_vars

(***************************************************************************)
(* Spec: the program from construction, with concurrent requests.          *)
(***************************************************************************)
Next ==
    \/ \E rt \in RefreshTokens : AddToken(rt)
    \/ \E r \in Reqs, m \in MaxTokenAttempts :
          dispatched < MaxDispatch /\ Dispatch(r, m)
    \/ \E r \in Reqs : AcquireLock(r)
    \/ \E r \in Reqs, res \in PoolResults : AttemptCompleted(r, res, 0)
    \/ \E r \in Reqs, msg \in RefreshErrors : RefreshFailed(r, msg, 0)
    \/ now + _COOLDOWN_SECONDS + 1 <= MaxTime /\ Elapse(_COOLDOWN_SECONDS + 1)
    \/ \E c \in Callers, id \in TokenIds :
          refreshed < MaxRefresh /\ RefreshBegin(c, id)
    \/ \E c \in Callers : RefreshRetry(c)
    \/ \E c \in Callers, q \in QuotaReports :
          RefreshSucceeded(c, NoToken, q)
    \/ \E c \in Callers, err \in ExchangeErrors : RefreshExhausted(c, err)

Spec == Init /\ [][Next]_vars

(***************************************************************************)
(* Pools the program can hold when a request arrives: each account row in  *)
(* one of the conditions the handlers above (and the admin status update)  *)
(* leave a row in, with the snapshot the monitor leaves for it.            *)
(***************************************************************************)
PoolEpoch == 1000    \* the clock when the request arrives
PoolTokens == <<"rt-a", "rt-b", "rt-c", "rt-d">>

Profiles == {"fresh", "used", "erred", "unhealthy", "cooldown_unset",
             "cooldown_past", "cooldown_live", "quota_exhausted", "blocked"}

ProfileRow(p, rt) ==
    CASE p = "fresh" -> NewRow(rt)
      [] p = "used" ->
           [NewRow(rt) EXCEPT !.use_count = 1, !.last_success_at = PoolEpoch - 100,
                              !.last_check_at = PoolEpoch - 100,
                              !.quota_limit = 2, !.quota_used = 1,
                              !.quota_remaining = 1]
      [] p = "erred" ->
           [NewRow(rt) EXCEPT !.error_count = 1, !.last_error_code = "400",
                              !.last_check_at = PoolEpoch - 100]
      [] p = "unhealthy" ->
           [NewRow(rt) EXCEPT !.last_check_at = PoolEpoch - 100]
      [] p = "cooldown_unset" ->
           [NewRow(rt) EXCEPT !.status = "cooldown"]
      [] p = "cooldown_past" ->
           [NewRow(rt) EXCEPT !.status = "cooldown", !.error_count = 1,
                              !.last_error_code = "500",
                              !.last_check_at = PoolEpoch - 200,
                              !.cooldown_until = PoolEpoch - 20]
      [] p = "cooldown_live" ->
           [NewRow(rt) EXCEPT !.status = "cooldown", !.error_count = 1,
                              !.last_error_code = "500",
                              !.last_check_at = PoolEpoch - 100,
                              !.cooldown_until = PoolEpoch + 80]
      [] p = "quota_exhausted" ->
           [NewRow(rt) EXCEPT !.status = "quota_exhausted", !.error_count = 1,
                              !.last_error_code = "429",
                              !.last_check_at = PoolEpoch - 100,
                              !.cooldown_until = PoolEpoch + 500]
      [] OTHER ->
           [NewRow(rt) EXCEPT !.status = "blocked", !.error_count = 1,
                              !.last_error_code = "403",
                              !.last_check_at = PoolEpoch - 100]

\* Accounts with a health snapshot, and the snapshot.
Probed == {"used", "unhealthy"}

ProfileSnapshot(p) ==
    IF p = "unhealthy"
    THEN Snapshot(FALSE, _UNHEALTHY_FAILURE_THRESHOLD, 0)
    ELSE Snapshot(TRUE, 0, PoolEpoch - 100)

InitPool ==
    \E K \in 1..MaxPool :
      \E prof \in [1..K -> Profiles] :
        /\ tokens = [id \in 1..K |-> ProfileRow(prof[id], PoolTokens[id])]
        /\ nextId = K + 1
        /\ health = [id \in {k \in 1..K : prof[k] \in Probed} |->
                        ProfileSnapshot(prof[id])]
        /\ cursor \in 0..K
        /\ locks = [id \in TokenIds |-> "free"]
        /\ now = PoolEpoch
        /\ pc = [r \in Reqs |-> "idle"]
        /\ cands = [r \in Reqs |-> <<>>]
        /\ idx = [r \in Reqs |-> 0]
        /\ attempts = [r \in Reqs |-> <<>>]
        /\ result = [r \in Reqs |-> NoResult]
        /\ calls = [r \in Reqs |-> NoCalls]
        /\ dispatched = 0
        /\ refreshed = 0
        /\ rf = [c \in AllCallers |-> IdleRefresh]
        /\ SessionInit
        /\ GatewayInit

OkResult == Result(TRUE, 200, "")

(***************************************************************************)
(* SpecSched: sequential requests of one client on a drawn pool, with an   *)
(* upstream that always answers ok.  A request takes one second.           *)
(***************************************************************************)
NextSched ==
    \/ \E m \in MaxTokenAttempts :
          dispatched < MaxSeqRequests /\ Dispatch("r1", m)
    \/ AttemptCompleted("r1", OkResult, 1)

SpecSched == InitPool /\ [][NextSched]_vars

(***************************************************************************)
(* SpecEval: requests of one client on a drawn pool, with every upstream   *)
(* outcome.                                                                *)
(***************************************************************************)
NextEval ==
    \/ \E m \in MaxTokenAttempts :
          dispatched < MaxEvalRequests /\ Dispatch("r1", m)
    \/ \E res \in UpstreamResults : AttemptCompleted("r1", res, 1)
    \/ \E msg \in RefreshErrors : RefreshFailed("r1", msg, 1)

SpecEval == InitPool /\ [][NextEval]_vars

(***************************************************************************)
(* SpecPool: the pool from construction under import, delete and the       *)
(* refreshes of the admin routes and of the health monitor, with a refresh *)
(* endpoint that may rotate the refresh token.                             *)
(***************************************************************************)
NextPool ==
    \/ \E rt \in RefreshTokens : AddToken(rt)
    \/ \E id \in TokenIds : DeleteToken(id)
    \/ \E c \in AllCallers, id \in TokenIds :
          refreshed < MaxPoolRefresh /\ RefreshBegin(c, id)
    \/ \E c \in AllCallers : RefreshRetry(c)
    \/ \E c \in AllCallers, rt \in RefreshTokens \cup {NoToken},
          q \in UpstreamQuotas : RefreshSucceeded(c, rt, q)
    \/ \E c \in AllCallers, err \in ExchangeErrors : RefreshExhausted(c, err)

SpecPool == Init /\ [][NextPool]_vars

(***************************************************************************)
(* SpecStatus: every path that writes the status of one account, from      *)
(* construction: the dispatch evaluator, the refresh called by the admin   *)
(* routes and by the monitor, the quota probe and the admin status update. *)
(***************************************************************************)
MaxStatusTokens == 1
MaxStatusDispatch == 2
MaxStatusRefresh == 1

\* One outcome per status the dispatch evaluator writes.
StatusResults ==
    { Result(TRUE, 200, ""),
      Result(FALSE, 403, ""),
      Result(FALSE, 429, "No remaining quota"),
      Result(FALSE, 500, "") }

NextStatus ==
    \/ \E rt \in RefreshTokens : nextId <= MaxStatusTokens /\ AddToken(rt)
    \/ \E id \in TokenIds, status \in ALLOWED_STATUSES : update_token(id, status)
    \/ \E r \in Reqs :
          dispatched < MaxStatusDispatch /\ Dispatch(r, 1)
    \/ \E r \in Reqs : AcquireLock(r)
    \/ \E r \in Reqs, res \in StatusResults : AttemptCompleted(r, res, 0)
    \/ \E r \in Reqs, msg \in RefreshErrors : RefreshFailed(r, msg, 0)
    \/ now + _COOLDOWN_SECONDS + 1 <= MaxTime /\ Elapse(_COOLDOWN_SECONDS + 1)
    \/ \E c \in AllCallers, id \in TokenIds :
          refreshed < MaxStatusRefresh /\ RefreshBegin(c, id)
    \/ \E c \in AllCallers : RefreshRetry(c)
    \/ \E c \in AllCallers, q \in UpstreamQuotas :
          RefreshSucceeded(c, NoToken, q)
    \/ \E c \in AllCallers, err \in ExchangeErrors : RefreshExhausted(c, err)
    \/ \E c \in Callers, id \in TokenIds :
          refreshed < MaxStatusRefresh /\ QuotaProbeBegin(c, id)
    \/ \E c \in Callers, q \in UpstreamQuotas : QuotaProbeSucceeded(c, q)
    \/ \E c \in Callers : QuotaProbeFailed(c)

SpecStatus == Init /\ [][NextStatus]_vars

(***************************************************************************)
(* SpecLive: requests contending for the lock of a single account, every   *)
(* refresh exchange and upstream call answering ok.  An awaited call that  *)
(* terminates resumes its task, and asyncio.Lock.release wakes a waiter,   *)
(* so the completion of an attempt and the taking of a free lock are       *)
(* weakly fair.                                                            *)
(***************************************************************************)
MaxLiveTokens == 1
MaxLiveDispatch == 4
MaxLiveTime == 3

\* The seconds an attempt or an idle period can take.
Durations == {0, 1}

NextLive ==
    \/ \E rt \in RefreshTokens : nextId <= MaxLiveTokens /\ AddToken(rt)
    \/ \E r \in Reqs, m \in MaxTokenAttempts :
          dispatched < MaxLiveDispatch /\ Dispatch(r, m)
    \/ \E r \in Reqs : AcquireLock(r)
    \/ \E r \in Reqs, d \in Durations :
          now + d <= MaxLiveTime /\ AttemptCompleted(r, OkResult, d)
    \/ now + 1 <= MaxLiveTime /\ Elapse(1)

LiveFairness ==
    \A r \in Reqs :
        /\ WF_vars(AcquireLock(r))
        /\ WF_vars(AttemptCompleted(r, OkResult, 0))

SpecLive == Init /\ [][NextLive]_vars /\ LiveFairness

(***************************************************************************)
(* chat_gateway_support: the per-session BridgeState of the chat gateway.  *)
(***************************************************************************)
_SESSION_TTL == 1800

SessionKeys == {"session-a", "session-b"}
ConversationIds == {"conv-1", "conv-2"}

\* The session headers of a request; "" stands for a header that is absent.
Headers(warp, session, conversation) ==
    [x_warp_session_id |-> warp, x_session_id |-> session,
     x_conversation_id |-> conversation]

\* The header sets drawn: none, each header alone, and two headers that
\* disagree.
RequestHeaders ==
    { Headers("", "", "") }
    \cup { Headers(k, "", "") : k \in SessionKeys }
    \cup { Headers("", "session-a", ""), Headers("", "", "session-b"),
           Headers("session-a", "session-b", "") }

\* resolve_session_key: the first header that is present; "" for None.
resolve_session_key(headers) ==
    IF headers.x_warp_session_id # "" THEN headers.x_warp_session_id
    ELSE IF headers.x_session_id # "" THEN headers.x_session_id
    ELSE headers.x_conversation_id

\* BridgeState() followed by ensure_tool_ids: object o with fresh uuids.
NewBridgeState(o) ==
    [conversation_id |-> "", tool_call_id |-> 2 * o, tool_message_id |-> 2 * o + 1]

\* _cleanup_locked: drop the entries whose expiry is not after t.
_cleanup_locked(st, t) ==
    [k \in {x \in DOMAIN st : st[x].exp > t} |-> st[k]]

\* A lookup that returns the state stored under any key.
_states_get_any(st, key) ==
    IF DOMAIN st = {} THEN 0 ELSE st[CHOOSE k \in DOMAIN st : TRUE].st

\* self._states.get(session_key): the stored object, 0 for None.
_states_get(st, key) ==
    IF key \in DOMAIN st THEN st[key].st ELSE 0

\* get_state_for_request, with SessionStateStore.get_or_create under its
\* RLock when the request carries a session key.
get_state_for_request(r, headers) ==
    LET session_key == resolve_session_key(headers)
        cleaned == _cleanup_locked(_states, now)
        existing == IF session_key # "" THEN _states_get(cleaned, session_key)
                    ELSE 0
        st == IF existing = 0 THEN nextState ELSE existing
    IN  /\ bridge' = IF existing = 0
                     THEN [o \in DOMAIN bridge \cup {st} |->
                             IF o = st THEN NewBridgeState(st) ELSE bridge[o]]
                     ELSE bridge
        /\ nextState' = IF existing = 0 THEN nextState + 1 ELSE nextState
        /\ _states' = IF session_key # ""
                      THEN [k \in DOMAIN cleaned \cup {session_key} |->
                              IF k = session_key
                              THEN [st |-> st, exp |-> now + _SESSION_TTL]
                              ELSE cleaned[k]]
                      ELSE _states
        /\ got' = [got EXCEPT ![r] = [key |-> session_key, st |-> st, at |-> now]]
        /\ UNCHANGED <<tokens, nextId, health, cursor, locks, now, pc, cands,
                       idx, attempts, result, calls, dispatched, refreshed, rf,
                       gatewayVars>>

\* chat_gateway_service: the request stores the conversation id of the
\* upstream answer on the state it was given.
SetConversation(r, v) ==
    /\ got[r].st # 0
    /\ bridge' = [bridge EXCEPT ![got[r].st].conversation_id = v]
    /\ UNCHANGED <<tokens, nextId, health, cursor, locks, now, pc, cands, idx,
                   attempts, result, calls, dispatched, refreshed, rf,
                   _states, nextState, got, gatewayVars>>

MaxStates == 3
MaxSessionTime == 3601

NextSession ==
    \/ \E r \in Reqs, headers \in RequestHeaders :
          nextState <= MaxStates /\ get_state_for_request(r, headers)
    \/ \E r \in Reqs, v \in ConversationIds : SetConversation(r, v)
    \/ now + _SESSION_TTL \div 2 <= MaxSessionTime /\ Elapse(_SESSION_TTL \div 2)

SpecSession == Init /\ [][NextSession]_vars

(***************************************************************************)
(* The text path of a non-streaming chat completion: the decoded events of *)
(* the upstream SSE stream, send_warp_protobuf_request, and the completion *)
(* execute_chat_completions builds from its result.                        *)
(***************************************************************************)
\* dict.get(key, default)
Get(d, key, default) == IF key \in DOMAIN d THEN d[key] ELSE default

\* A message of add_messages_to_task: agent_output text and/or a tool call.
Message(text, tool) == [text |-> text, tool |-> tool]

\* One action of client_actions.
AppendToMessageContent(text) == [append |-> TRUE, text |-> text, messages |-> <<>>]
AddMessagesToTask(messages) == [append |-> FALSE, text |-> "", messages |-> messages]

\* A decoded ResponseEvent.
InitEvent == [type |-> "init", conversation_id |-> "conv-1", actions |-> <<>>]
FinishedEvent == [type |-> "finished", conversation_id |-> "", actions |-> <<>>]
ClientActions(actions) ==
    [type |-> "client_actions", conversation_id |-> "", actions |-> actions]

\* The valid events drawn: init, text deltas by either kind of action, one
\* event with two actions, a tool call, empty client actions, finished.
UpstreamEvents ==
    { InitEvent,
      FinishedEvent,
      ClientActions(<<>>),
      ClientActions(<<AppendToMessageContent("a")>>),
      ClientActions(<<AppendToMessageContent("b")>>),
      ClientActions(<<AddMessagesToTask(<<Message("c", "")>>)>>),
      ClientActions(<<AppendToMessageContent("a"),
                      AddMessagesToTask(<<Message("b", ""), Message("c", "")>>)>>),
      ClientActions(<<AddMessagesToTask(<<Message("", "tool-1")>>)>>) }

RECURSIVE Join(_)
\* "".join(parts)
Join(parts) ==
    IF parts = <<>> THEN "" ELSE Head(parts) \o Join(Tail(parts))

RECURSIVE MessageTexts(_)
\* The non-empty agent_output texts of a list of messages.
MessageTexts(messages) ==
    IF messages = <<>> THEN <<>>
    ELSE (IF Head(messages).text # "" THEN <<Head(messages).text>> ELSE <<>>)
         \o MessageTexts(Tail(messages))

RECURSIVE ActionTexts(_)
\* The text parts of a list of actions, in order.
ActionTexts(actions) ==
    IF actions = <<>> THEN <<>>
    ELSE LET a == Head(actions)
         IN  (IF a.append
              THEN (IF a.text # "" THEN <<a.text>> ELSE <<>>)
              ELSE MessageTexts(a.messages))
             \o ActionTexts(Tail(actions))

\* event_parser.extract_text_from_event
extract_text_from_event(event_data) ==
    IF event_data.type # "client_actions" THEN ""
    ELSE Join(ActionTexts(event_data.actions))

RECURSIVE MessageToolCalls(_)
MessageToolCalls(messages) ==
    IF messages = <<>> THEN <<>>
    ELSE (IF Head(messages).tool # "" THEN <<Head(messages).tool>> ELSE <<>>)
         \o MessageToolCalls(Tail(messages))

RECURSIVE ActionToolCalls(_)
ActionToolCalls(actions) ==
    IF actions = <<>> THEN <<>>
    ELSE (IF Head(actions).append THEN <<>>
          ELSE MessageToolCalls(Head(actions).messages))
         \o ActionToolCalls(Tail(actions))

\* chat_gateway_support.extract_tool_call_deltas (the same walk as
\* event_parser.extract_tool_calls_from_event)
extract_tool_call_deltas(event_data) ==
    IF event_data.type # "client_actions" THEN <<>>
    ELSE ActionToolCalls(event_data.actions)

RECURSIVE ReadEvents(_, _, _)
\* The loop over the stream: the first `budget` events are read before the
\* read timeout; a finished event ends the loop before its text is looked at.
ReadEvents(evs, budget, acc) ==
    IF evs = <<>> \/ budget = 0 THEN acc
    ELSE LET e == Head(evs)
             counted == [acc EXCEPT !.events_count = @ + 1,
                                    !.parsed_events = Append(@, e)]
         IN  IF e.type = "finished" THEN counted
             ELSE LET text == extract_text_from_event(e)
                  IN  ReadEvents(Tail(evs), budget - 1,
                        [counted EXCEPT
                           !.conversation_id =
                               IF e.type = "init" THEN e.conversation_id ELSE @,
                           !.text_parts =
                               IF text # "" THEN Append(@, text) ELSE @,
                           !.tool_calls = @ \o extract_tool_call_deltas(e)])

\* send_warp_protobuf_request on an HTTP 200 stream.
send_warp_protobuf_request(evs, budget) ==
    LET read == ReadEvents(evs, budget,
                    [events_count |-> 0, parsed_events |-> <<>>,
                     conversation_id |-> "", text_parts |-> <<>>,
                     tool_calls |-> <<>>])
    IN  [ok |-> TRUE, status_code |-> 200, error |-> "",
         text |-> Join(read.text_parts),
         conversation_id |-> read.conversation_id,
         events_count |-> read.events_count,
         parsed_events |-> read.parsed_events,
         tool_calls |-> read.tool_calls]

RECURSIVE EventsToolCalls(_)
\* execute_chat_completions: the tool calls of all parsed events.
EventsToolCalls(parsed_events) ==
    IF parsed_events = <<>> THEN <<>>
    ELSE extract_tool_call_deltas(Head(parsed_events))
         \o EventsToolCalls(Tail(parsed_events))

\* The message of the completion built from the transport result.
msg_payload(resp) ==
    LET tool_calls == EventsToolCalls(Get(resp, "parsed_events", <<>>))
    IN  IF tool_calls # <<>>
        THEN [role |-> "assistant", content |-> "", tool_calls |-> tool_calls,
              finish_reason |-> "tool_calls"]
        ELSE [role |-> "assistant", content |-> Get(resp, "response", ""),
              tool_calls |-> <<>>, finish_reason |-> "stop"]

MaxEvents == 3

\* The upstream sends one more event of the stream; nothing follows a
\* finished event.
UpstreamSends(e) ==
    /\ bridge_resp = NoResponse
    /\ Len(events) < MaxEvents
    /\ IF events = <<>> THEN TRUE ELSE events[Len(events)].type # "finished"
    /\ events' = Append(events, e)
    /\ UNCHANGED <<poolVars, sessionVars, historyVars, monitorVars, streamVars, bridge_resp, completion>>

\* The transport call of the dispatch returns; send_protobuf_with_rotation
\* hands its result on unchanged when it is ok.
TransportReturns(budget) ==
    /\ bridge_resp = NoResponse
    /\ budget \in 0..Len(events)
    /\ bridge_resp' = send_warp_protobuf_request(events, budget)
    /\ UNCHANGED <<poolVars, sessionVars, historyVars, monitorVars, streamVars, events, completion>>

\* execute_chat_completions after execute_warp_packet returned an ok result.
execute_chat_completions ==
    /\ bridge_resp # NoResponse
    /\ bridge_resp.ok
    /\ completion = NoCompletion
    /\ completion' = [object |-> "chat.completion",
                      message |-> msg_payload(bridge_resp)]
    /\ UNCHANGED <<poolVars, sessionVars, historyVars, monitorVars, streamVars, events, bridge_resp>>

NextText ==
    \/ \E e \in UpstreamEvents : UpstreamSends(e)
    \/ \E budget \in 0..MaxEvents : TransportReturns(budget)
    \/ execute_chat_completions

SpecText == Init /\ [][NextText]_vars

(***************************************************************************)
(* chat_gateway_support.reorder_messages_for_anthropic.                    *)
(***************************************************************************)
\* A ChatMessage.  The content is a string (list = FALSE, one segment), a
\* list of text segments, or None (no segment); tool_calls holds the ids of
\* the calls; "" stands for an absent tool_call_id.
ChatMessage(role, list, segs, tool_calls, tool_call_id) ==
    [role |-> role, list |-> list, segs |-> segs,
     tool_calls |-> tool_calls, tool_call_id |-> tool_call_id]

\* The messages a request can carry.
ChatMessages ==
    { ChatMessage("system", FALSE, <<"s">>, <<>>, ""),
      ChatMessage("user", FALSE, <<"u">>, <<>>, ""),
      ChatMessage("user", TRUE, <<"p", "q">>, <<>>, ""),
      ChatMessage("assistant", FALSE, <<"t">>, <<>>, ""),
      ChatMessage("assistant", FALSE, <<>>, <<"x">>, ""),
      ChatMessage("assistant", FALSE, <<>>, <<"y">>, ""),
      ChatMessage("assistant", FALSE, <<"t">>, <<"x", "y">>, ""),
      ChatMessage("tool", FALSE, <<"r">>, <<>>, "x"),
      ChatMessage("tool", FALSE, <<"r">>, <<>>, "y"),
      ChatMessage("tool", FALSE, <<"r">>, <<>>, "") }

RECURSIVE UserSegments(_)
\* One user message per segment of a list content.
UserSegments(segs) ==
    IF segs = <<>> THEN <<>>
    ELSE <<ChatMessage("user", FALSE, <<Head(segs)>>, <<>>, "")>>
         \o UserSegments(Tail(segs))

RECURSIVE AssistantCalls(_)
\* One assistant message per tool call.
AssistantCalls(tool_calls) ==
    IF tool_calls = <<>> THEN <<>>
    ELSE <<ChatMessage("assistant", FALSE, <<>>, <<Head(tool_calls)>>, "")>>
         \o AssistantCalls(Tail(tool_calls))

RECURSIVE Expand(_)
\* The first loop: split multi-segment user messages and assistant messages
\* with more than one tool call.
Expand(h) ==
    IF h = <<>> THEN <<>>
    ELSE LET m == Head(h)
             assistant_text == Join(m.segs)
         IN  (IF m.role = "user" /\ m.list /\ Len(m.segs) > 1
              THEN UserSegments(m.segs)
              ELSE IF m.role = "assistant" /\ Len(m.tool_calls) > 1
              THEN (IF assistant_text # ""
                    THEN <<ChatMessage("assistant", FALSE, <<assistant_text>>, <<>>, "")>>
                    ELSE <<>>)
                   \o AssistantCalls(m.tool_calls)
              ELSE <<m>>)
             \o Expand(Tail(h))

RECURSIVE LastInputToolId(_, _)
\* The scan from the end: the id of the last tool result, unless a user
\* message comes first; "" when the last input is not a tool result.
LastInputToolId(expanded, i) ==
    IF i = 0 THEN ""
    ELSE IF expanded[i].role = "tool" /\ expanded[i].tool_call_id # ""
    THEN expanded[i].tool_call_id
    ELSE IF expanded[i].role = "user" THEN ""
    ELSE LastInputToolId(expanded, i - 1)

\* The ids of a sequence, as a set.
Ids(seq) == {seq[i] : i \in DOMAIN seq}

\* assistant_tc_ids
AssistantToolCallIds(expanded) ==
    UNION {Ids(expanded[i].tool_calls) :
              i \in {j \in DOMAIN expanded : expanded[j].role = "assistant"}}

\* tool_results_by_id without the popped ids: the first tool message with id
\* tc_id, as a list of one message, or the empty list.
ToolResult(expanded, popped, tc_id) ==
    LET at == {i \in DOMAIN expanded :
                  expanded[i].role = "tool" /\ expanded[i].tool_call_id = tc_id}
    IN  IF tc_id = "" \/ tc_id \in popped \/ at = {} THEN <<>>
        ELSE <<expanded[CHOOSE i \in at : \A j \in at : i <= j]>>

RECURSIVE ToolResults(_, _, _)
\* The results popped for the ids of one assistant message, in order.
ToolResults(expanded, popped, ids) ==
    IF ids = <<>> THEN <<>>
    ELSE ToolResult(expanded, popped, Head(ids))
         \o ToolResults(expanded, popped \cup {Head(ids)}, Tail(ids))

RECURSIVE Place(_, _, _, _, _, _)
\* The main loop from message i on, then the trailing block.
Place(expanded, last, i, res, popped, trailing) ==
    IF i > Len(expanded)
    THEN IF last # "" /\ trailing # <<>>
         THEN res \o trailing \o ToolResult(expanded, popped, last)
         ELSE res
    ELSE LET m == expanded[i]
         IN  IF m.role = "tool"
             THEN IF m.tool_call_id = ""
                     \/ m.tool_call_id \notin AssistantToolCallIds(expanded)
                  THEN Place(expanded, last, i + 1, Append(res, m),
                             popped \cup {m.tool_call_id}, trailing)
                  ELSE Place(expanded, last, i + 1, res, popped, trailing)
             ELSE IF m.role = "assistant" /\ m.tool_calls # <<>>
             THEN IF last # "" /\ last \in Ids(m.tool_calls)
                  THEN Place(expanded, last, i + 1, res, popped,
                             IF trailing = <<>> THEN <<m>> ELSE trailing)
                  ELSE Place(expanded, last, i + 1,
                             Append(res, m)
                                 \o ToolResults(expanded, popped, m.tool_calls),
                             popped \cup Ids(m.tool_calls), trailing)
             ELSE Place(expanded, last, i + 1, Append(res, m), popped, trailing)

reorder_messages_for_anthropic(h) ==
    IF h = <<>> THEN <<>>
    ELSE LET expanded == Expand(h)
         IN  Place(expanded, LastInputToolId(expanded, Len(expanded)),
                   1, <<>>, {}, <<>>)

MaxHistory == 4

\* The caller's request carries one more message.
AppendMessage(m) ==
    /\ Len(history) < MaxHistory
    /\ history' = Append(history, m)
    /\ reordered' = <<>>
    /\ UNCHANGED <<poolVars, sessionVars, textVars, monitorVars, streamVars>>

\* execute_chat_completions: history = reorder_messages_for_anthropic(...)
ReorderHistory ==
    /\ history # <<>>
    /\ reordered' = reorder_messages_for_anthropic(history)
    /\ UNCHANGED <<poolVars, sessionVars, textVars, monitorVars, streamVars, history>>

NextHistory ==
    \/ \E m \in ChatMessages : AppendMessage(m)
    \/ ReorderHistory

SpecHistory == Init /\ [][NextHistory]_vars

(***************************************************************************)
(* The streaming path: stream_openai_sse over the transport result, and    *)
(* the Anthropic adapter's conversion of that stream.                      *)
(***************************************************************************)
\* One `data:` item of the OpenAI stream: a chunk with its delta (role,
\* content text, or the id of one tool call) and finish_reason ("" when the
\* chunk has none), or the [DONE] line.
_chunk(role, content, tool_call, finish_reason) ==
    [done |-> FALSE, role |-> role, content |-> content,
     tool_call |-> tool_call, finish_reason |-> finish_reason]

DONE ==
    [done |-> TRUE, role |-> "", content |-> "", tool_call |-> "",
     finish_reason |-> ""]

RECURSIVE ContentChunks(_)
ContentChunks(texts) ==
    IF texts = <<>> THEN <<>>
    ELSE <<_chunk("", Head(texts), "", "")>> \o ContentChunks(Tail(texts))

RECURSIVE ToolCallChunks(_)
ToolCallChunks(tcs) ==
    IF tcs = <<>> THEN <<>>
    ELSE <<_chunk("", "", Head(tcs), "")>> \o ToolCallChunks(Tail(tcs))

\* chat_gateway_support.extract_text_deltas: the texts as a list.
extract_text_deltas(event_data) ==
    IF event_data.type # "client_actions" THEN <<>>
    ELSE ActionTexts(event_data.actions)

RECURSIVE _stream_once(_, _)
\* The loop of _stream_once over parsed_events, then [DONE].
_stream_once(parsed_events, tool_calls_emitted) ==
    IF parsed_events = <<>> THEN <<DONE>>
    ELSE LET event_data == Head(parsed_events)
             tcs == extract_tool_call_deltas(event_data)
             emitted == tool_calls_emitted \/ tcs # <<>>
         IN  ContentChunks(extract_text_deltas(event_data))
             \o ToolCallChunks(tcs)
             \o (IF event_data.type = "finished"
                 THEN <<_chunk("", "", "",
                               IF emitted THEN "tool_calls" ELSE "stop")>>
                 ELSE <<>>)
             \o _stream_once(Tail(parsed_events), emitted)

\* A stream whose error path ends with the error chunk.
stream_openai_sse_without_done(resp) ==
    <<_chunk("assistant", "", "", "")>>
    \o (IF Get(resp, "ok", FALSE)
        THEN _stream_once(Get(resp, "parsed_events", <<>>), FALSE)
        ELSE <<_chunk("", "", "", "error")>>)

\* stream_openai_sse: the role chunk, then _stream_once; when that raises
\* (the transport result is not ok), the error chunk and [DONE].
stream_openai_sse(resp) ==
    <<_chunk("assistant", "", "", "")>>
    \o (IF Get(resp, "ok", FALSE)
        THEN _stream_once(Get(resp, "parsed_events", <<>>), FALSE)
        ELSE <<_chunk("", "", "", "error"), DONE>>)

\* One event of the Anthropic stream; index is Null where the event has none.
AnthropicEvent(type, index, detail) ==
    [type |-> type, index |-> index, detail |-> detail]

RECURSIVE _openai_sse_to_anthropic_sse_loop(_, _, _)
\* The loop over the OpenAI stream with the converter's tool_index, in_tool.
_openai_sse_to_anthropic_sse_loop(openai_stream, tool_index, in_tool) ==
    IF openai_stream = <<>> \/ Head(openai_stream).done THEN <<>>
    ELSE LET chunk == Head(openai_stream)
             has_tc == chunk.tool_call # ""
             index == IF has_tc THEN 1 ELSE tool_index
             tool == in_tool \/ has_tc
         IN  (IF chunk.content # ""
              THEN <<AnthropicEvent("content_block_delta", 0, "text_delta")>>
              ELSE <<>>)
             \o (IF has_tc /\ ~in_tool
                 THEN <<AnthropicEvent("content_block_stop", 0, ""),
                        AnthropicEvent("content_block_start", 1, "tool_use")>>
                 ELSE <<>>)
             \o (IF has_tc
                 THEN <<AnthropicEvent("content_block_delta", index,
                                       "input_json_delta")>>
                 ELSE <<>>)
             \o (IF chunk.finish_reason # ""
                 THEN <<AnthropicEvent("content_block_stop",
                                       IF tool THEN index ELSE 0, ""),
                        AnthropicEvent("message_delta", Null,
                                       IF chunk.finish_reason = "tool_calls"
                                       THEN "tool_use" ELSE "end_turn"),
                        AnthropicEvent("message_stop", Null, "")>>
                 ELSE <<>>)
             \o _openai_sse_to_anthropic_sse_loop(Tail(openai_stream), index, tool)

_openai_sse_to_anthropic_sse(openai_stream) ==
    <<AnthropicEvent("message_start", Null, ""),
      AnthropicEvent("content_block_start", 0, "text")>>
    \o _openai_sse_to_anthropic_sse_loop(openai_stream, 0, FALSE)

\* The transport results that are not ok, as send_protobuf_with_rotation
\* returns them.
FailedResponses ==
    { [ok |-> FALSE, status_code |-> 503,
       error |-> "token pool is empty or no active token available"],
      [ok |-> FALSE, status_code |-> 500, error |-> ""] }

\* execute_warp_packet returns a result that is not ok.
TransportFails(resp) ==
    /\ bridge_resp = NoResponse
    /\ bridge_resp' = resp
    /\ UNCHANGED <<poolVars, sessionVars, historyVars, monitorVars, streamVars,
                   events, completion>>

\* The streaming response of /v1/chat/completions is consumed to its end.
StreamOpenAI ==
    /\ bridge_resp # NoResponse
    /\ sse = <<>>
    /\ sse' = stream_openai_sse(bridge_resp)
    /\ UNCHANGED <<poolVars, sessionVars, textVars, historyVars, monitorVars,
                   anthropic_sse>>

\* The streaming response of /v1/messages over the same OpenAI stream.
StreamAnthropic ==
    /\ sse # <<>>
    /\ anthropic_sse = <<>>
    /\ anthropic_sse' = _openai_sse_to_anthropic_sse(sse)
    /\ UNCHANGED <<poolVars, sessionVars, textVars, historyVars, monitorVars,
                   sse>>

NextStream ==
    \/ \E e \in UpstreamEvents : UpstreamSends(e)
    \/ \E budget \in 0..MaxEvents : TransportReturns(budget)
    \/ \E resp \in FailedResponses : TransportFails(resp)
    \/ StreamOpenAI
    \/ StreamAnthropic

SpecStream == Init /\ [][NextStream]_vars

(***************************************************************************)
(* account_pool_monitor: the monitor task and its shutdown.  A second is   *)
(* the unit of the inter-cycle sleep.                                      *)
(***************************************************************************)
MonitorInterval == 3   \* seconds of _monitor_interval_seconds()
MaxProbes == 3         \* accounts due in one cycle
MaxCycles == 4         \* probe cycles in one behaviour

\* start_monitor: nothing when the task is running, else a new event and a
\* new task, which stands at the test of its while loop.
start_monitor ==
    /\ _MONITOR_TASK \in {"none", "done"}
    /\ stopping # "awaiting"
    /\ _STOP_EVENT' = "clear"
    /\ _MONITOR_TASK' = "loop"
    /\ stopping' = "idle"
    /\ UNCHANGED <<poolVars, sessionVars, textVars, historyVars, streamVars,
                   probes, sleep_left, cycles>>

\* _run_monitor, one pass of the loop body up to its first await: the stop
\* event is clear, due accounts are listed; with due accounts the probes
\* are started under gather, without any the task goes to sleep.
MonitorCycle(due) ==
    /\ _MONITOR_TASK = "loop"
    /\ _STOP_EVENT # "set"
    /\ cycles < MaxCycles
    /\ cycles' = cycles + 1
    /\ IF due > 0
       THEN /\ _MONITOR_TASK' = "gathering"
            /\ probes' = due
            /\ UNCHANGED sleep_left
       ELSE /\ _MONITOR_TASK' = "sleeping"
            /\ sleep_left' = MonitorInterval
            /\ UNCHANGED probes
    /\ UNCHANGED <<poolVars, sessionVars, textVars, historyVars, streamVars,
                   _STOP_EVENT, stopping>>

\* _guarded_check: one probe of the cycle settles (_check_one_token returns,
\* having caught its own failure).
ProbeSettles ==
    /\ _MONITOR_TASK = "gathering"
    /\ probes > 0
    /\ probes' = probes - 1
    /\ UNCHANGED <<poolVars, sessionVars, textVars, historyVars, streamVars,
                   _MONITOR_TASK, _STOP_EVENT, sleep_left, cycles, stopping>>

\* gather returns once every probe has settled; the task starts
\* wait_for(stop_event.wait(), timeout=interval).
GatherReturns ==
    /\ _MONITOR_TASK = "gathering"
    /\ probes = 0
    /\ _MONITOR_TASK' = "sleeping"
    /\ sleep_left' = MonitorInterval
    /\ UNCHANGED <<poolVars, sessionVars, textVars, historyVars, streamVars,
                   _STOP_EVENT, probes, cycles, stopping>>

\* A second of the sleep passes.
SleepTick ==
    /\ _MONITOR_TASK = "sleeping"
    /\ sleep_left > 0
    /\ sleep_left' = sleep_left - 1
    /\ UNCHANGED <<poolVars, sessionVars, textVars, historyVars, streamVars,
                   _MONITOR_TASK, _STOP_EVENT, probes, cycles, stopping>>

\* A sleep that ends only when its interval has elapsed.
SleepEndsOnTimeout ==
    /\ _MONITOR_TASK = "sleeping"
    /\ sleep_left = 0
    /\ _MONITOR_TASK' = "loop"
    /\ UNCHANGED <<poolVars, sessionVars, textVars, historyVars, streamVars,
                   _STOP_EVENT, probes, sleep_left, cycles, stopping>>

\* wait_for returns: the event was set, or the timeout expired.
SleepEnds ==
    /\ _MONITOR_TASK = "sleeping"
    /\ _STOP_EVENT = "set" \/ sleep_left = 0
    /\ _MONITOR_TASK' = "loop"
    /\ UNCHANGED <<poolVars, sessionVars, textVars, historyVars, streamVars,
                   _STOP_EVENT, probes, sleep_left, cycles, stopping>>

\* The while test fails: the task logs and ends.
MonitorStops ==
    /\ _MONITOR_TASK = "loop"
    /\ _STOP_EVENT = "set"
    /\ _MONITOR_TASK' = "done"
    /\ UNCHANGED <<poolVars, sessionVars, textVars, historyVars, streamVars,
                   _STOP_EVENT, probes, sleep_left, cycles, stopping>>

\* stop_monitor up to its await: set the event and await the task.
stop_monitor ==
    /\ stopping = "idle"
    /\ _MONITOR_TASK # "none"
    /\ _STOP_EVENT' = "set"
    /\ stopping' = "awaiting"
    /\ UNCHANGED <<poolVars, sessionVars, textVars, historyVars, streamVars,
                   _MONITOR_TASK, probes, sleep_left, cycles>>

\* stop_monitor after its await: the task has ended; forget task and event.
StopReturns ==
    /\ stopping = "awaiting"
    /\ _MONITOR_TASK = "done"
    /\ _MONITOR_TASK' = "none"
    /\ _STOP_EVENT' = "none"
    /\ stopping' = "returned"
    /\ UNCHANGED <<poolVars, sessionVars, textVars, historyVars, streamVars,
                   probes, sleep_left, cycles>>

\* The steps the event loop owes the monitor task and its stopper.
MonitorProgress ==
    \/ ProbeSettles
    \/ GatherReturns
    \/ SleepEnds
    \/ MonitorStops
    \/ StopReturns

NextMonitor ==
    \/ start_monitor
    \/ \E due \in 0..MaxProbes : MonitorCycle(due)
    \/ SleepTick
    \/ stop_monitor
    \/ MonitorProgress

\* A runnable task is run, and a probe in flight settles (the refresh
\* exchange has a timeout); nothing is assumed about the clock.
SpecMonitor == Init /\ [][NextMonitor]_vars /\ WF_vars(MonitorProgress)

(***************************************************************************)
(* Cancellation of a dispatch task (the caller went away).                 *)
(***************************************************************************)
\* A cancellation that leaves the lock with the cancelled task.
CancelHoldingLock(r) ==
    /\ pc[r] \in {"wait_lock", "refreshing"}
    /\ pc' = [pc EXCEPT ![r] = "cancelled"]
    /\ UNCHANGED <<tokens, nextId, health, cursor, locks, now, cands, idx,
                   attempts, result, calls, dispatched, refreshed, rf,
                   sessionVars, gatewayVars>>

\* CancelledError is raised at the await the task stands at: lock.acquire()
\* before the try of token_lock, or refresh_jwt_token inside the with block,
\* whose finally releases the lock.  It is not an Exception, so the except
\* branch of send_protobuf_with_rotation does not run.
Cancel(r) ==
    /\ pc[r] \in {"wait_lock", "refreshing"}
    /\ pc' = [pc EXCEPT ![r] = "cancelled"]
    /\ locks' = [id \in DOMAIN locks |->
                    IF pc[r] = "refreshing" /\ locks[id] = r
                    THEN "free" ELSE locks[id]]
    /\ UNCHANGED <<tokens, nextId, health, cursor, now, cands, idx,
                   attempts, result, calls, dispatched, refreshed, rf,
                   sessionVars, gatewayVars>>

MaxCancelDispatch == 2   \* requests dispatched in one behaviour of SpecCancel

\* The upstream outcomes of SpecCancel: served, or rotate on quota.
CancelResults == {OkResult, Result(FALSE, 429, "No remaining quota")}

\* Two callers on a drawn pool; either may go away during its attempt.
NextCancel ==
    \/ \E r \in Reqs, m \in MaxTokenAttempts :
          dispatched < MaxCancelDispatch /\ Dispatch(r, m)
    \/ \E r \in Reqs : AcquireLock(r)
    \/ \E r \in Reqs, res \in CancelResults : AttemptCompleted(r, res, 1)
    \/ \E r \in Reqs, msg \in RefreshErrors : RefreshFailed(r, msg, 1)
    \/ \E r \in Reqs : Cancel(r)

SpecCancel == InitPool /\ [][NextCancel]_vars

(***************************************************************************)
(* SpecStuck: two callers on a drawn pool with an upstream that answers ok *)
(* when it answers.  The calls of caller r2 terminate and a free lock is   *)
(* taken; nothing is assumed about the calls of caller r1, which may never *)
(* return.                                                                 *)
(***************************************************************************)
MaxStuckDispatch == 3   \* requests dispatched in one behaviour of SpecStuck

NextStuck ==
    \/ \E r \in Reqs, m \in MaxTokenAttempts :
          dispatched < MaxStuckDispatch /\ Dispatch(r, m)
    \/ \E r \in Reqs : AcquireLock(r)
    \/ \E r \in Reqs : AttemptCompleted(r, OkResult, 0)

SpecStuck ==
    /\ InitPool
    /\ [][NextStuck]_vars
    /\ WF_vars(AcquireLock("r2"))
    /\ WF_vars(AttemptCompleted("r2", OkResult, 0))

(***************************************************************************)
(* Properties.                                                             *)
(***************************************************************************)
\* Request r is inside the locked section of account id: its refresh
\* exchange is in flight (the send follows in the step that resumes it).
InLockedSection(r, id) ==
    pc[r] = "refreshing" /\ cands[r][idx[r]].id = id

WaitsForLock(r, id) ==
    pc[r] = "wait_lock" /\ cands[r][idx[r]].id = id

\* C1: for every account and every interleaving of concurrent
\* send_protobuf_with_rotation calls, at most one call at a time is inside
\* the account's locked section, so the in-flight dispatch refreshes of one
\* account never exceed 1.
C1_OneCallInLockedSection ==
    \A id \in TokenIds :
        Cardinality({r \in Reqs : InLockedSection(r, id)}) <= 1

\* One call holds the section of an account while the other waits for it.
C1_Witness ==
    \E id \in TokenIds, r, w \in Reqs :
        r # w /\ InLockedSection(r, id) /\ WaitsForLock(w, id)

\* Refresh-token exchanges in flight for account id, from the request
\* dispatch and from the callers of TokenPoolService.refresh_token.
ExchangesInFlight(id) ==
    Cardinality({r \in Reqs : InLockedSection(r, id)})
    + Cardinality({c \in Callers : rf[c].pc = "exchanging" /\ rf[c].id = id})

\* C2: no two refresh-token exchanges for the same account are in flight at
\* the same time, whichever component starts them.
C2_OneExchangePerAccount ==
    \A id \in TokenIds : ExchangesInFlight(id) <= 1

\* A dispatch attempt and an admin refresh exchange the same account's
\* refresh token at once.
C2_Witness ==
    \E id \in TokenIds, r \in Reqs, c \in Callers :
        InLockedSection(r, id) /\ rf[c].pc = "exchanging" /\ rf[c].id = id

\* C3: candidate selection returns only accounts whose status is exactly
\* active, whatever their cooldown_until.
C3_OnlyActiveSelected ==
    \A m \in MaxTokenAttempts :
        LET cs == _select_pool_candidates(m)
        IN  \A i \in 1..Len(cs) : tokens[cs[i].id].status = "active"

\* A request is being attempted on an account whose status is cooldown.
C3_Witness ==
    \E r \in Reqs :
        /\ pc[r] = "refreshing"
        /\ idx[r] = 1
        /\ tokens[cands[r][1].id].status = "cooldown"

Unhealthy(id) ==
    ~Healthy(id) /\ Failures(id) >= _UNHEALTHY_FAILURE_THRESHOLD

HealthyActive(id) ==
    /\ tokens[id].status = "active"
    /\ ~Unhealthy(id)
    /\ tokens[id].cooldown_until <= now

\* C4: an account whose snapshot is unhealthy with consecutive_failures at
\* or over the threshold is never a candidate and never attempted; when such
\* an account and a healthy active account exist, a request has a candidate.
C4_UnhealthyNeverSelected ==
    \A r \in Reqs :
        /\ \A i \in 1..Len(cands[r]) : ~Unhealthy(cands[r][i].id)
        /\ \A i \in 1..Len(attempts[r]) : ~Unhealthy(attempts[r][i].token_id)
        /\ (/\ pc[r] # "idle"
            /\ \E u \in DOMAIN tokens : Unhealthy(u)
            /\ \E h \in DOMAIN tokens : HealthyActive(h))
           => /\ cands[r] # <<>>
              /\ pc[r] = "done" => Len(attempts[r]) >= 1

\* A request was served by a healthy account although an unhealthy account
\* ranks before it.
C4_Witness ==
    \E u \in DOMAIN tokens :
        /\ Unhealthy(u)
        /\ pc["r1"] = "done"
        /\ result["r1"].ok
        /\ Len(attempts["r1"]) = 1
        /\ KeyLess(u, attempts["r1"][1].token_id)

EligibleCount == Cardinality({id \in DOMAIN tokens : Eligible(id)})

\* C5: with at least two eligible accounts and an upstream that always
\* answers ok, the first attempt of a request is on another account than the
\* first attempt of the request before it.
C5_RoundRobin ==
    [][(/\ pc["r1"] = "done"
        /\ pc'["r1"] # "done"
        /\ Len(attempts["r1"]) >= 1
        /\ EligibleCount >= 2)
       => cands'["r1"][idx'["r1"]].id # attempts["r1"][1].token_id]_vars

\* Two requests were served, the first by account a and the second by b.
C5_Witness ==
    \E a, b \in DOMAIN tokens :
        /\ a # b
        /\ dispatched = 2
        /\ pc["r1"] = "done"
        /\ result["r1"].ok
        /\ tokens[a].last_success_at = PoolEpoch + 1
        /\ tokens[b].last_success_at = PoolEpoch + 2
        /\ attempts["r1"][1].token_id = b

CeilDiv(n, k) == (n + k - 1) \div k

\* Every account of the pool is active and healthy and has served exactly
\* use_count requests (no request is in progress).
FairPool ==
    /\ pc["r1"] \in {"idle", "done"}
    /\ \A id \in DOMAIN tokens :
          /\ tokens[id].status = "active"
          /\ Healthy(id)
          /\ tokens[id].error_count = 0
          /\ tokens[id].quota_limit = Null

\* C6: after N sequential successful requests over an all-active,
\* all-healthy pool of K accounts, the numbers of requests served by any two
\* accounts differ by at most ceil(N/K) - floor(N/K) + 1.
C6_FairnessBound ==
    FairPool =>
        LET N == dispatched
            K == Cardinality(DOMAIN tokens)
        IN  \A a, b \in DOMAIN tokens :
                tokens[a].use_count - tokens[b].use_count
                    <= CeilDiv(N, K) - (N \div K) + 1

\* Three requests were served by a pool of three accounts.
C6_Witness ==
    /\ FairPool
    /\ Cardinality(DOMAIN tokens) = 3
    /\ dispatched = 3
    /\ \E a \in DOMAIN tokens : tokens[a].use_count = 2

\* The step of request r that empties the candidate set: a dispatch when no
\* account is eligible.
NoCandidate == \A id \in DOMAIN tokens : ~Eligible(id)

\* C7: when the candidate set is empty, send_protobuf_with_rotation returns
\* ok=false with status 503 and attempts=[], starts no refresh exchange and
\* no send, and changes no account row.
C7_EmptyPoolReturns503 ==
    [][(NoCandidate /\ dispatched' = dispatched + 1)
       => /\ \E r \in Reqs :
                /\ pc[r] \in {"idle", "done"}
                /\ pc'[r] = "done"
                /\ ~result'[r].ok
                /\ result'[r].status_code = 503
                /\ result'[r].attempts = <<>>
                /\ attempts'[r] = <<>>
                /\ calls'[r] = NoCalls
                /\ \A o \in Reqs \ {r} :
                      pc'[o] = pc[o] /\ calls'[o] = calls[o]
          /\ UNCHANGED <<tokens, health, locks, cursor, rf>>]_vars

\* A request returned 503 on a pool that has accounts, none eligible.
C7_Witness ==
    \E r \in Reqs :
        /\ pc[r] = "done"
        /\ result[r].status_code = 503
        /\ DOMAIN tokens # {}
        /\ NoCandidate

HasQuotaMarker(err) ==
    Contains(err, "no remaining quota") \/ Contains(err, "no ai requests remaining")

\* C8: candidates A then B, A answered with HTTP 429 and a quota-exhaustion
\* message, B answered ok: the request returns ok, attempts is A then B, A
\* ends quota_exhausted with quota_remaining 0, B ends active with use_count
\* increased by exactly 1.
C8_FailoverOnQuota ==
    [][(/\ pc["r1"] = "refreshing"
        /\ idx["r1"] = 2
        /\ Len(attempts["r1"]) = 1
        /\ attempts["r1"][1].status_code = 429
        /\ HasQuotaMarker(attempts["r1"][1].error)
        /\ Len(attempts'["r1"]) = 2
        /\ attempts'["r1"][2].status_code = 200)
       => LET A == cands["r1"][1].id
              B == cands["r1"][2].id
          IN  /\ pc'["r1"] = "done"
              /\ result'["r1"].ok
              /\ attempts'["r1"][1].token_id = A
              /\ attempts'["r1"][2].token_id = B
              /\ tokens'[A].status = "quota_exhausted"
              /\ tokens'[A].quota_remaining = 0
              /\ tokens'[B].status = "active"
              /\ tokens'[B].use_count = tokens[B].use_count + 1]_vars

\* The request failed over from A on quota and was served by B.
C8_Witness ==
    /\ pc["r1"] = "done"
    /\ result["r1"].ok
    /\ Len(attempts["r1"]) = 2
    /\ attempts["r1"][1].status_code = 429
    /\ HasQuotaMarker(attempts["r1"][1].error)
    /\ tokens[attempts["r1"][1].token_id].status = "quota_exhausted"

\* The attempt entry added by this step, for a send that was evaluated on
\* the account row (not a failed refresh).
SendEvaluated(r) ==
    /\ Len(attempts'[r]) = Len(attempts[r]) + 1
    /\ tokens'[attempts'[r][Len(attempts'[r])].token_id].last_error_code
          # "refresh_error"

\* C9: whenever a request outcome is classified as quota exhaustion, the
\* account row written for it has status quota_exhausted, quota_remaining 0
\* and, when a limit is known, quota_used equal to the limit.
C9_QuotaExhaustedRow ==
    [][\A r \in Reqs :
         LET e == attempts'[r][Len(attempts'[r])]
         IN  (SendEvaluated(r)
              /\ is_quota_exhausted_error(e.status_code, e.error))
             => /\ tokens'[e.token_id].status = "quota_exhausted"
                /\ tokens'[e.token_id].quota_remaining = 0
                /\ tokens'[e.token_id].quota_limit # Null
                      => tokens'[e.token_id].quota_used
                            = tokens'[e.token_id].quota_limit]_vars

\* An account with a known limit was answered with a quota-exhaustion message.
C9_Witness ==
    \E i \in 1..Len(attempts["r1"]) :
        /\ HasQuotaMarker(attempts["r1"][i].error)
        /\ tokens[attempts["r1"][i].token_id].status = "quota_exhausted"
        /\ tokens[attempts["r1"][i].token_id].quota_limit # Null

\* C10: the status assigned to an account after a failed upstream call is
\* the first matching row of: quota marker -> quota_exhausted; HTTP 0 ->
\* cooldown; 403 -> blocked; 401 or 429 without quota marker -> cooldown;
\* >= 500 -> cooldown; invalid_grant -> blocked; otherwise active.
C10_StatusMapping ==
    [][\A r \in Reqs :
         LET e == attempts'[r][Len(attempts'[r])]
         IN  (SendEvaluated(r) /\ e.status_code # 200)
             => tokens'[e.token_id].status
                   = status_from_runtime_result(
                        Result(FALSE, e.status_code, e.error))]_vars

\* An account was answered 429 without a quota marker.
C10_Witness ==
    \E i \in 1..Len(attempts["r1"]) :
        /\ attempts["r1"][i].status_code = 429
        /\ ~HasQuotaMarker(attempts["r1"][i].error)
        /\ tokens[attempts["r1"][i].token_id].last_error_code = "429"

\* C11: after an ok outcome on an account, the account has status active,
\* error_count 0, cleared last-error fields and cleared cooldown_until, and
\* its use_count is exactly one higher than before the request.
C11_OkOutcomeRow ==
    [][\A r \in Reqs :
         LET e == attempts'[r][Len(attempts'[r])]
         IN  (SendEvaluated(r) /\ e.status_code = 200)
             => /\ tokens'[e.token_id].status = "active"
                /\ tokens'[e.token_id].error_count = 0
                /\ tokens'[e.token_id].last_error_code = ""
                /\ tokens'[e.token_id].cooldown_until = 0
                /\ tokens'[e.token_id].use_count
                      = tokens[e.token_id].use_count + 1]_vars

\* A single successful request left use_count = 1 on the account it used.
C11_Witness ==
    /\ dispatched = 1
    /\ pc["r1"] = "done"
    /\ result["r1"].ok
    /\ Len(attempts["r1"]) = 1
    /\ tokens[attempts["r1"][1].token_id].use_count = 1
    /\ tokens[attempts["r1"][1].token_id].last_success_at = now

\* Caller c's refresh returns in this step with success.
RefreshReturnsOk(c) ==
    rf[c].pc = "exchanging" /\ rf'[c].pc = "idle" /\ rf'[c].success

\* C12: when refreshing account B returns a refresh token that is stored on
\* a different account A, then after the refresh B's row no longer exists,
\* A's row carries the fresh state, and the result reports account id A.
C12_AccountMerge ==
    [][\A c \in AllCallers : \A A \in DOMAIN tokens :
         (/\ RefreshReturnsOk(c)
          /\ A # rf[c].id
          /\ tokens[A].refresh_token = rf'[c].rt)
         => /\ rf[c].id \notin DOMAIN tokens'
            /\ A \in DOMAIN tokens'
            /\ tokens'[A].refresh_token = rf'[c].rt
            /\ tokens'[A].status \in {"active", "quota_exhausted"}
            /\ tokens'[A].error_count = 0
            /\ tokens'[A].last_error_code = ""
            /\ tokens'[A].last_success_at = rf[c].started
            /\ tokens'[A].last_check_at = rf[c].started
            /\ tokens'[A].quota_limit # Null
                  => (tokens'[A].status = "quota_exhausted"
                        <=> (/\ ~tokens'[A].quota_is_unlimited
                             /\ tokens'[A].quota_limit >= 0
                             /\ tokens'[A].quota_used >= tokens'[A].quota_limit))
                     \/ tokens'[A] = [tokens[A] EXCEPT
                                        !.status = "active",
                                        !.error_count = 0,
                                        !.last_error_code = "",
                                        !.last_success_at = rf[c].started,
                                        !.last_check_at = rf[c].started]
            /\ rf'[c].token_id = A]_vars

\* A refresh of account B merged into account A and removed B.
C12_Witness ==
    \E c \in AllCallers :
        /\ rf[c].pc = "idle"
        /\ rf[c].success
        /\ rf[c].token_id # 0
        /\ rf[c].token_id # rf[c].id
        /\ rf[c].id \notin DOMAIN tokens
        /\ tokens[rf[c].token_id].quota_limit = 2

\* C13: no two account rows hold the same non-empty refresh token, under
\* any interleaving of import, refresh (including rotation of the refresh
\* token), merge and delete.
C13_UniqueRefreshToken ==
    \A a, b \in DOMAIN tokens :
        (a # b /\ tokens[a].refresh_token # NoToken)
            => tokens[a].refresh_token # tokens[b].refresh_token

\* Two rows are stored, one of them after a rotation or a merge changed the
\* set of refresh tokens held, while another refresh is still in flight.
C13_Witness ==
    /\ Cardinality(DOMAIN tokens) = 2
    /\ \E c \in AllCallers :
          /\ rf[c].pc = "idle"
          /\ rf[c].success
          /\ rf[c].token_id \in DOMAIN tokens
          /\ tokens[rf[c].token_id].refresh_token = rf[c].rt
          /\ \/ rf[c].id \notin DOMAIN tokens
             \/ \E d \in AllCallers : rf[d].pc = "exchanging" /\ rf[d].rt # rf[c].rt
                                       /\ rf[d].id = rf[c].id

\* C14: in every reachable state, an account whose status is
\* quota_exhausted has quota_remaining = 0, whichever path set the status.
C14_QuotaExhaustedHasNoQuotaLeft ==
    \A id \in DOMAIN tokens :
        tokens[id].status = "quota_exhausted" => tokens[id].quota_remaining = 0

\* A refresh read a used-up quota and stored quota_exhausted with nothing left.
C14_Witness ==
    \E id \in DOMAIN tokens :
        /\ tokens[id].status = "quota_exhausted"
        /\ tokens[id].quota_limit = 2
        /\ tokens[id].quota_used = 2
        /\ tokens[id].quota_remaining = 0

\* C15: for every account that is not unlimited, the stored quota_remaining
\* equals max(0, request_limit - requests_used) after every quota update; it is
\* never negative, even when more requests were used than the limit.
C15_QuotaRemainingClamped ==
    \A id \in DOMAIN tokens :
        (tokens[id].quota_limit # Null /\ ~tokens[id].quota_is_unlimited)
            => tokens[id].quota_remaining
                   = Max(0, tokens[id].quota_limit - tokens[id].quota_used)

\* A quota update stored a report with more requests used than the limit.
C15_Witness ==
    \E id \in DOMAIN tokens :
        /\ tokens[id].quota_limit # Null
        /\ ~tokens[id].quota_is_unlimited
        /\ tokens[id].quota_used > tokens[id].quota_limit

\* C16: in every reachable state, an account whose cooldown_until lies in the
\* future has status cooldown or quota_exhausted; an active account never
\* carries a live cooldown.
C16_LiveCooldownStatus ==
    \A id \in DOMAIN tokens :
        tokens[id].cooldown_until > now
            => tokens[id].status \in {"cooldown", "quota_exhausted"}

\* A refresh or quota probe returned with success for an account whose
\* cooldown_until lies in the future.
C16_Witness ==
    \E id \in DOMAIN tokens, c \in AllCallers :
        /\ tokens[id].cooldown_until > now
        /\ rf[c].pc = "idle"
        /\ rf[c].success
        /\ rf[c].token_id = id
        /\ tokens[id].last_check_at = now

\* C17: in every reachable state, an account whose status is blocked has an
\* empty cooldown_until, whichever path set it to blocked.
C17_BlockedHasNoCooldown ==
    \A id \in DOMAIN tokens :
        tokens[id].status = "blocked" => tokens[id].cooldown_until = 0

\* A hard refresh failure blocked an account that was in cooldown.
C17_Witness ==
    \E id \in DOMAIN tokens :
        /\ tokens[id].status = "blocked"
        /\ tokens[id].cooldown_until = 0
        /\ tokens[id].error_count = 2
        /\ tokens[id].last_error_code = "invalid_grant"

\* The step is taken by a request of the dispatch path.
DispatchStep == pc' # pc \/ calls' # calls \/ attempts' # attempts

\* The step is taken by the health monitor.
MonitorStep == rf'["monitor"] # rf["monitor"]

\* The step is taken by a refresh of an account other than id.
OtherRefreshStep(id) ==
    \E c \in AllCallers :
        rf'[c] # rf[c] /\ rf[c].pc = "exchanging" /\ rf[c].id # id

\* C18: once an account's status is blocked, no step taken by request
\* dispatch, by the health monitor or by a refresh of another account changes
\* that status.
C18_BlockedIsPermanent ==
    [][\A id \in DOMAIN tokens \cap DOMAIN tokens' :
         (/\ tokens[id].status = "blocked"
          /\ DispatchStep \/ MonitorStep \/ OtherRefreshStep(id))
         => tokens'[id].status = "blocked"]_vars

\* An account is blocked while a request attempt or a monitor check that
\* started earlier is still in flight on it.
C18_Witness ==
    \E id \in DOMAIN tokens :
        /\ tokens[id].status = "blocked"
        /\ \/ \E r \in Reqs : pc[r] = "refreshing" /\ cands[r][idx[r]].id = id
           \/ rf["monitor"].pc = "exchanging" /\ rf["monitor"].id = id

\* Request r has selected the account and has not returned yet.
InFlight(r) == pc[r] \in {"wait_lock", "refreshing"}

\* C19: when two requests are dispatched concurrently against a pool with a
\* single account and every refresh and upstream call terminates with ok,
\* both requests eventually acquire the account lock, complete and return ok.
C19_BothRequestsSucceed ==
    \A r \in Reqs :
        InFlight(r) ~> (/\ pc[r] = "done"
                        /\ result[r].ok
                        /\ calls[r].refresh = 1
                        /\ calls[r].send = 1)

\* Two requests contend for the single account: one holds its lock, the
\* other waits.
C19_Witness ==
    /\ Cardinality(DOMAIN tokens) = 1
    /\ \E r, w \in Reqs :
          /\ pc[r] = "refreshing"
          /\ pc[w] = "wait_lock"
          /\ locks[cands[w][idx[w]].id] = r

\* The distance between two instants.
Apart(a, b) == IF a >= b THEN a - b ELSE b - a

\* C20: two requests observe the same conversation state if and only if they
\* carry the same non-empty session key (within the TTL); a request without a
\* session key gets a state that is never stored or seen by another request,
\* and requests with different keys never share state.
C20_SessionIsolation ==
    /\ \A r, s \in Reqs :
          (r # s /\ got[r].st # 0 /\ got[s].st # 0)
          => /\ got[r].st = got[s].st
                   => (got[r].key = got[s].key /\ got[r].key # "")
             /\ (/\ got[r].key = got[s].key
                 /\ got[r].key # ""
                 /\ Apart(got[r].at, got[s].at) < _SESSION_TTL)
                   => /\ got[r].st = got[s].st
                      /\ bridge[got[r].st].conversation_id
                            = bridge[got[s].st].conversation_id
             /\ got[r].st # got[s].st
                   => bridge[got[r].st].tool_call_id # bridge[got[s].st].tool_call_id
    /\ \A r \in Reqs : \A k \in DOMAIN _states :
          (got[r].st # 0 /\ got[r].key = "") => _states[k].st # got[r].st
    /\ \A k, l \in DOMAIN _states : k # l => _states[k].st # _states[l].st

\* Two requests with the same session key share a state that carries the
\* conversation one of them stored, while a request without a key got its own.
C20_Witness ==
    /\ got["r1"].key = "session-a"
    /\ got["r2"].key = "session-a"
    /\ got["r1"].st = got["r2"].st
    /\ got["r1"].at # got["r2"].at
    /\ bridge[got["r1"].st].conversation_id = "conv-1"
    /\ Cardinality(DOMAIN bridge) >= 2

RECURSIVE EventsText(_)
\* The concatenation of the text deltas of a sequence of events.
EventsText(evs) ==
    IF evs = <<>> THEN ""
    ELSE extract_text_from_event(Head(evs)) \o EventsText(Tail(evs))

\* C21: for any sequence of valid upstream events whose text deltas
\* concatenate to T, the non-streaming completion returned to the caller
\* carries exactly T as its text.
C21_TextPreserved ==
    completion # NoCompletion
        => completion.message.content = EventsText(events)

\* A completion was returned for a stream that carried text, and the
\* transport result holds that text.
C21_Witness ==
    /\ completion # NoCompletion
    /\ EventsText(events) = "ab"
    /\ bridge_resp.text = "ab"
    /\ completion.message.finish_reason = "stop"

\* C22: the message reorder function is idempotent over any message
\* history h: reorder(reorder(h)) = reorder(h).
C22_ReorderIdempotent ==
    reorder_messages_for_anthropic(reordered) = reordered

\* A history was reordered, and the reordered history differs from it.
C22_Witness ==
    /\ Len(history) = MaxHistory
    /\ reordered # <<>>
    /\ reordered # history
    /\ Len(reordered) > Len(history)

\* Rows a and b agree on every field but the counters and the time stamps.
SameExceptCounters(a, b) ==
    /\ a.status = b.status
    /\ (a.cooldown_until = 0) <=> (b.cooldown_until = 0)
    /\ a.quota_limit = b.quota_limit
    /\ a.quota_used = b.quota_used
    /\ a.quota_remaining = b.quota_remaining
    /\ a.quota_is_unlimited = b.quota_is_unlimited
    /\ a.last_error_code = b.last_error_code
    /\ a.refresh_token = b.refresh_token

\* C23: the runtime evaluator is idempotent: for any account row and any
\* outcome o, applying the evaluator twice with o yields the same row as
\* applying it once, on every field except use_count and error_count.
C23_EvaluatorIdempotent ==
    \A id \in DOMAIN tokens : \A res \in UpstreamResults :
        LET once == _apply_pool_result(tokens, id, res, now)
            twice == _apply_pool_result(once, id, res, now + 1)
            marked == mark_runtime_request_result(tokens, id, res, now)
            remarked == mark_runtime_request_result(marked, id, res, now + 1)
        IN  /\ SameExceptCounters(once[id], twice[id])
            /\ SameExceptCounters(marked[id], remarked[id])

\* The evaluator has written a failed outcome on a row with quota fields, and
\* another account of the pool is still untouched.
C23_Witness ==
    /\ pc["r1"] = "done"
    /\ ~result["r1"].ok
    /\ \E id \in DOMAIN tokens :
          /\ tokens[id].error_count >= 1
          /\ tokens[id].status = "cooldown"
          /\ tokens[id].last_check_at = now

\* C24: every health snapshot refers to an existing account; deleting or
\* merging away an account removes its snapshot, and no later step (such as
\* an in-flight monitor probe) creates a snapshot for an id that is gone.
C24_SnapshotsHaveAccounts == DOMAIN health \subseteq DOMAIN tokens

\* An account was removed while another one, still there, has a snapshot.
C24_Witness ==
    /\ \E id \in DOMAIN health : id \in DOMAIN tokens
    /\ \E id \in 1..(nextId - 1) : id \notin DOMAIN tokens

RECURSIVE LexLess(_, _)
\* Tuples of integers of equal length, compared as Python compares tuples.
LexLess(a, b) ==
    IF a = <<>> THEN FALSE
    ELSE \/ Head(a) < Head(b)
         \/ Head(a) = Head(b) /\ LexLess(Tail(a), Tail(b))

\* The ranking tuple of an account.
RankKey(id) ==
    <<tokens[id].error_count, tokens[id].use_count,
      0 - tokens[id].last_success_at, id>>

EligibleIds == {id \in DOMAIN tokens : Eligible(id)}

\* The 0-based position of an eligible account in the ranked list.
RankPos(id) == Cardinality({y \in EligibleIds : LexLess(RankKey(y), RankKey(id))})

\* The 0-based position the rotated list starts at.
RotationStart ==
    IF cursor \in EligibleIds
    THEN (RankPos(cursor) + 1) % Cardinality(EligibleIds)
    ELSE 0

\* C25: the candidate list returned by selection is the eligible accounts
\* sorted by (error_count ascending, use_count ascending, last_success_at
\* descending, id ascending), rotated to start at the position immediately
\* after the cursor account, truncated to max_attempts; start = 0 when the
\* cursor is unset or not among the eligible accounts.
C25_CandidateOrder ==
    \A m \in MaxTokenAttempts :
        LET c == _select_pool_candidates(m)
            n == Cardinality(EligibleIds)
        IN  /\ Len(c) = Min(n, m)
            /\ \A i \in 1..Len(c) :
                  /\ c[i].id \in EligibleIds
                  /\ RankPos(c[i].id) = (RotationStart + i - 1) % n
                  /\ c[i].refresh_token = tokens[c[i].id].refresh_token

\* After a served request the cursor is on an eligible account, three
\* accounts are eligible, the ranking is not the id order, and the list of a
\* request with two attempts starts after the cursor and is cut.
C25_Witness ==
    /\ dispatched >= 1
    /\ pc["r1"] = "done"
    /\ Cardinality(EligibleIds) = 3
    /\ cursor \in EligibleIds
    /\ RotationStart # 0
    /\ \E a, b \in EligibleIds : a < b /\ RankPos(a) > RankPos(b)
    /\ Len(_select_pool_candidates(2)) = 2
    /\ RankPos(_select_pool_candidates(2)[1].id) = RotationStart

\* The outer rotation set: HTTP 0, 401, 403, 429, >= 500, a quota-exhaustion
\* marker, invalid api key, or a transport retry marker.
InOuterRotationSet(status_code, err) ==
    \/ status_code \in {0, 401, 403, 429}
    \/ status_code >= 500
    \/ HasQuotaMarker(err)
    \/ Contains(err, "invalid api key")
    \/ Contains(err, "timeout")

\* C26: dispatch moves on to the next candidate exactly when the attempt's
\* outcome is a failure in the outer rotation set; if the outcome is ok or a
\* failure outside that set, dispatch returns that outcome immediately
\* without trying further candidates.
C26_OuterRotation ==
    [][\A r \in Reqs :
         LET e == attempts'[r][Len(attempts'[r])]
         IN  (SendEvaluated(r) /\ idx[r] < Len(cands[r]))
             => IF e.status_code # 200 /\ InOuterRotationSet(e.status_code, e.error)
                THEN /\ pc'[r] # "done"
                     /\ idx'[r] = idx[r] + 1
                ELSE /\ pc'[r] = "done"
                     /\ result'[r].status_code = e.status_code
                     /\ result'[r].attempts = attempts'[r]]_vars

\* A request with two candidates was answered HTTP 500 on the first one and
\* has returned.
C26_Witness ==
    /\ pc["r1"] = "done"
    /\ Len(cands["r1"]) = 2
    /\ Len(attempts["r1"]) = 1
    /\ attempts["r1"][1].status_code = 500
    /\ result["r1"].status_code = 500

WARP_REQUEST_RETRY_COUNT == 3

\* The outcomes the inner loop retries: HTTP 0, 408, 425, 429, 5xx, or a
\* transient-error marker.
InnerRetryable(status_code, err) ==
    \/ status_code \in {0, 408, 425, 429}
    \/ status_code >= 500 /\ status_code <= 599
    \/ Contains(err, "timeout")

\* C27: within one account attempt, a retryable transport outcome is retried
\* on the same account with the same access token, up to N attempts in
\* total, before the evaluator runs and before rotation; a non-retryable
\* outcome ends the inner loop at once.  Stated for the first account of a
\* request: when the evaluator runs on a retryable outcome, N transport
\* calls and one refresh exchange have been made; on any outcome, at most N.
C27_InnerRetry ==
    [][\A r \in Reqs :
         LET e == attempts'[r][Len(attempts'[r])]
         IN  (SendEvaluated(r) /\ Len(attempts[r]) = 0)
             => /\ calls'[r].send >= 1
                /\ calls'[r].send <= WARP_REQUEST_RETRY_COUNT
                /\ (e.status_code # 200
                    /\ InnerRetryable(e.status_code, e.error))
                      => /\ calls'[r].send = WARP_REQUEST_RETRY_COUNT
                         /\ calls[r].refresh = 1]_vars

\* The evaluator has put the first account of a request into cooldown for an
\* HTTP 500 outcome.
C27_Witness ==
    /\ Len(attempts["r1"]) >= 1
    /\ attempts["r1"][1].status_code = 500
    /\ tokens[attempts["r1"][1].token_id].status = "cooldown"
    /\ tokens[attempts["r1"][1].token_id].last_error_code = "500"
    /\ calls["r1"].send >= 1

\* The trace of request r names the first candidates, in order, once each.
TraceInOrder(r) ==
    /\ Len(attempts[r]) <= Len(cands[r])
    /\ \A i \in 1..Len(attempts[r]) : attempts[r][i].token_id = cands[r][i].id
    /\ \A i, j \in 1..Len(attempts[r]) :
          i # j => attempts[r][i].token_id # attempts[r][j].token_id

\* C28: for one dispatched request, the evaluator (or the refresh-error
\* handler) is applied exactly once per attempted account, and the attempts
\* trace contains exactly one entry per attempted account in attempt order,
\* with no account appearing twice and length at most max_attempts; when all
\* candidates are exhausted, the returned result is the last outcome together
\* with that full trace.
C28_OneEvaluationPerAttempt ==
    [][\A r \in Reqs :
         /\ TraceInOrder(r)'
         /\ IF Len(attempts'[r]) = Len(attempts[r]) + 1
            THEN LET e == attempts'[r][Len(attempts'[r])]
                     a == cands[r][idx[r]].id
                 IN  /\ e.token_id = a
                     /\ SubSeq(attempts'[r], 1, Len(attempts[r])) = attempts[r]
                     /\ \A b \in DOMAIN tokens \ {a} : tokens'[b] = tokens[b]
                     /\ IF e.status_code = 200
                        THEN /\ tokens'[a].use_count = tokens[a].use_count + 1
                             /\ tokens'[a].error_count = 0
                        ELSE /\ tokens'[a].use_count = tokens[a].use_count
                             /\ tokens'[a].error_count = tokens[a].error_count + 1
                     /\ idx[r] = Len(cands[r])
                           => /\ pc'[r] = "done"
                              /\ result'[r].attempts = attempts'[r]
                              /\ result'[r].error = e.error
                              /\ result'[r].ok = (e.status_code = 200)
            ELSE pc'[r] # pc[r]
                    => /\ tokens' = tokens
                       /\ IF pc[r] \in {"idle", "done"}
                          THEN /\ attempts'[r] = <<>>
                               /\ \E m \in MaxTokenAttempts :
                                     /\ cands'[r] = _select_pool_candidates(m)
                                     /\ Len(cands'[r]) <= m
                          ELSE /\ attempts'[r] = attempts[r]
                               /\ cands'[r] = cands[r]]_vars

\* Both candidates of a request were attempted and failed, the second by a
\* failed refresh, and the request has returned the trace.
C28_Witness ==
    /\ pc["r1"] = "done"
    /\ Len(cands["r1"]) = 2
    /\ Len(attempts["r1"]) = 2
    /\ ~result["r1"].ok
    /\ result["r1"].attempts = attempts["r1"]
    /\ attempts["r1"][1].status_code = 429
    /\ tokens[attempts["r1"][2].token_id].last_error_code = "refresh_error"

\* This step of request r records an attempt whose token refresh failed.
RefreshFailedStep(r) ==
    /\ Len(attempts'[r]) = Len(attempts[r]) + 1
    /\ attempts'[r][Len(attempts'[r])].status_code = 0
    /\ attempts'[r][Len(attempts'[r])].error \in RefreshErrors

RefreshFailureStep(c) ==
    /\ rf[c].pc = "exchanging"
    /\ rf'[c].pc # "exchanging"
    /\ ~rf'[c].success

\* C30: when an account refresh fails after its retry loop (at most N = 3
\* exchange calls, stopping at the first non-empty access token), a hard
\* error (invalid grant / invalid or revoked refresh token) leaves the
\* account blocked with no cooldown_until, and any other error leaves it in
\* cooldown with cooldown_until = now + ERROR_COOLDOWN_SECONDS; in both cases
\* error_count increases by exactly 1.
C30_RefreshFailureRow ==
    [][\A c \in AllCallers :
         /\ rf'[c].tries <= _REFRESH_RETRY_COUNT
         /\ RefreshFailureStep(c)
            => LET id == rf[c].id
               IN  /\ rf[c].tries = _REFRESH_RETRY_COUNT
                   /\ id \in DOMAIN tokens
                         => /\ tokens'[id].error_count = tokens[id].error_count + 1
                            /\ IF tokens'[id].last_error_code
                                     \in {"invalid_grant", "invalid_refresh_token"}
                               THEN /\ tokens'[id].status = "blocked"
                                    /\ tokens'[id].cooldown_until = 0
                               ELSE /\ tokens'[id].last_error_code = "refresh_failed"
                                    /\ tokens'[id].status = "cooldown"
                                    /\ tokens'[id].cooldown_until
                                          = now + _REFRESH_ERROR_COOLDOWN_SECONDS]_vars

\* A refresh started before the clock moved has failed on its third
\* exchange, on an account that already had a failure counted, and left the
\* account in cooldown.
C30_Witness ==
    \E c \in AllCallers :
        /\ rf[c].pc # "exchanging"
        /\ rf[c].id \in DOMAIN tokens
        /\ ~rf[c].success
        /\ tokens[rf[c].id].status = "cooldown"
        /\ tokens[rf[c].id].last_error_code = "refresh_failed"
        /\ tokens[rf[c].id].error_count >= 2
        /\ tokens[rf[c].id].cooldown_until = now + _REFRESH_ERROR_COOLDOWN_SECONDS
        /\ tokens[rf[c].id].last_check_at < now

\* C31: a failed refresh writes an unhealthy health snapshot that preserves
\* the account's previous last_success_at: the snapshot's last_success_at
\* after the failure equals its value before the failure, and
\* consecutive_failures does not decrease.
C31_FailureKeepsLastSuccess ==
    [][\A c \in AllCallers :
         (RefreshFailureStep(c) /\ rf[c].id \in DOMAIN health)
         => /\ rf[c].id \in DOMAIN health'
            /\ ~health'[rf[c].id].healthy
            /\ health'[rf[c].id].last_success_at = health[rf[c].id].last_success_at
            /\ health'[rf[c].id].consecutive_failures
                  >= health[rf[c].id].consecutive_failures]_vars

\* An account that was refreshed successfully before has an unhealthy
\* snapshot after a failed refresh.
C31_Witness ==
    \E c \in AllCallers :
        /\ rf[c].pc = "idle"
        /\ ~rf[c].success
        /\ rf[c].id \in DOMAIN tokens
        /\ rf[c].id \in DOMAIN health
        /\ ~health[rf[c].id].healthy
        /\ tokens[rf[c].id].last_success_at > 0
        /\ tokens[rf[c].id].error_count = 1

\* C32: once the stop signal is set, the monitor task wakes from its
\* inter-cycle sleep without waiting for the interval to elapse, starts no
\* new probe cycle, lets probes already in flight settle, and then
\* terminates; stop_monitor returns only after the task has ended.
C32_MonitorShutdown ==
    /\ [][_STOP_EVENT = "set"
            => /\ cycles' = cycles
               /\ probes' <= probes
               /\ _MONITOR_TASK' # "gathering" \/ _MONITOR_TASK = "gathering"]_vars
    /\ [][(_MONITOR_TASK # "done" /\ _MONITOR_TASK' = "done") => probes = 0]_vars
    /\ [][(stopping # "returned" /\ stopping' = "returned")
            => _MONITOR_TASK = "done"]_vars
    /\ (_STOP_EVENT = "set" /\ _MONITOR_TASK = "sleeping" /\ sleep_left > 0)
          ~> (_MONITOR_TASK = "done" \/ sleep_left = 0)
    /\ (_STOP_EVENT = "set") ~> (stopping = "returned")

\* stop_monitor has returned after a stop that found the task asleep with
\* its whole interval ahead, in a behaviour that ran probes.
C32_Witness ==
    /\ stopping = "returned"
    /\ _MONITOR_TASK = "none"
    /\ sleep_left = MonitorInterval
    /\ cycles >= 2
    /\ probes = 0

\* C33: when the dispatch task is cancelled while an attempt is in flight,
\* the account lock held by that attempt is released, no audit entry is
\* written for the attempt (the trace and the rows, which are written
\* together with the audit entries, stay as they are), and the account's
\* status, counters and cooldown are left unchanged.
C33_CancelReleasesLock ==
    [][\A r \in Reqs :
         (pc[r] # "cancelled" /\ pc'[r] = "cancelled")
         => /\ tokens' = tokens
            /\ health' = health
            /\ attempts' = attempts
            /\ result' = result
            /\ \A id \in DOMAIN locks :
                  /\ locks'[id] # r
                  /\ locks[id] # r => locks'[id] = locks[id]]_vars

\* A task was cancelled during the attempt on an account, and the other
\* task then took that account's lock and was served by it.
C33_Witness ==
    \E r, o \in Reqs :
        /\ pc[r] = "cancelled"
        /\ pc[o] = "done"
        /\ result[o].ok
        /\ attempts[r] = <<>>
        /\ attempts[o][Len(attempts[o])].token_id = cands[r][idx[r]].id
        /\ locks[cands[r][idx[r]].id] = "free"

DoneCount == Cardinality({i \in DOMAIN sse : sse[i].done})

\* The transport read the upstream's finished event.
UpstreamFinished ==
    /\ Get(bridge_resp, "ok", FALSE)
    /\ \E i \in DOMAIN bridge_resp.parsed_events :
          bridge_resp.parsed_events[i].type = "finished"

\* C35: every OpenAI chat-completions stream starts with the role chunk,
\* emits a terminal chunk with finish_reason tool_calls or stop when the
\* upstream finishes, and ends with exactly one `data: [DONE]` line that is
\* the last item emitted, on the success path and on the error path alike;
\* nothing is emitted after [DONE].
C35_OpenAIStreamShape ==
    sse # <<>>
    => /\ sse[1] = _chunk("assistant", "", "", "")
       /\ sse[Len(sse)] = DONE
       /\ DoneCount = 1
       /\ UpstreamFinished
             => /\ Len(sse) >= 3
                /\ sse[Len(sse) - 1].finish_reason \in {"tool_calls", "stop"}
                /\ sse[Len(sse) - 1].finish_reason = "tool_calls"
                      <=> \E i \in DOMAIN sse : sse[i].tool_call # ""
                /\ \A i \in 1..(Len(sse) - 2) : sse[i].finish_reason = ""
       /\ ~Get(bridge_resp, "ok", FALSE)
             => sse = <<_chunk("assistant", "", "", ""),
                        _chunk("", "", "", "error"), DONE>>

\* A stream with a text delta and a tool call was finished by the upstream
\* and streamed to its end.
C35_Witness ==
    /\ UpstreamFinished
    /\ Len(sse) = 5
    /\ sse[2].content # ""
    /\ sse[3].tool_call # ""
    /\ sse[4].finish_reason = "tool_calls"

\* The positions of the Anthropic stream holding an event of a type for a
\* block index.
BlockEvents(type, index) ==
    {i \in DOMAIN anthropic_sse :
        anthropic_sse[i].type = type /\ anthropic_sse[i].index = index}

\* The OpenAI stream carried a chunk with a finish_reason.
StreamFinished == \E i \in DOMAIN sse : sse[i].finish_reason # ""

\* C36: for any sequence of upstream text and tool-call deltas, the emitted
\* events are message_start, content_block_start for the text block,
\* content_block_stop(index=0) followed by content_block_start(tool_use) at
\* the first tool-call delta, and on finish content_block_stop,
\* message_delta(stop_reason), message_stop; every started content block is
\* stopped exactly once, and no delta is emitted for a block index after
\* that block's content_block_stop.
C36_AnthropicStreamShape ==
    anthropic_sse # <<>>
    => LET a == anthropic_sse
           n == Len(anthropic_sse)
       IN  /\ a[1].type = "message_start"
           /\ a[2] = AnthropicEvent("content_block_start", 0, "text")
           /\ \A i \in BlockEvents("content_block_start", 1) :
                 /\ a[i].detail = "tool_use"
                 /\ a[i - 1] = AnthropicEvent("content_block_stop", 0, "")
           /\ Cardinality(BlockEvents("content_block_start", 0)) = 1
           /\ Cardinality(BlockEvents("content_block_start", 1)) <= 1
           /\ StreamFinished
                 => /\ a[n].type = "message_stop"
                    /\ a[n - 1].type = "message_delta"
                    /\ a[n - 2].type = "content_block_stop"
                    /\ \A index \in {0, 1} :
                          Cardinality(BlockEvents("content_block_stop", index))
                             = Cardinality(BlockEvents("content_block_start", index))
           /\ \A index \in {0, 1} :
                 \A i \in BlockEvents("content_block_stop", index) :
                    \A j \in BlockEvents("content_block_delta", index) : j < i

\* A finished stream with a text delta and then a tool call was converted.
C36_Witness ==
    /\ StreamFinished
    /\ anthropic_sse # <<>>
    /\ BlockEvents("content_block_delta", 0) # {}
    /\ BlockEvents("content_block_start", 1) # {}
    /\ anthropic_sse[Len(anthropic_sse) - 1].detail = "tool_use"

\* The position of the first assistant message of the expanded history that
\* declares the tool call tc_id.
DeclaredAt(tc_id) ==
    LET expanded == Expand(history)
        at == {i \in DOMAIN expanded :
                  expanded[i].role = "assistant"
                  /\ tc_id \in Ids(expanded[i].tool_calls)}
    IN  CHOOSE i \in at : \A j \in at : i <= j

\* No tool message of the reordered output is without a declared tool call.
NoUnmatchedToolMessage ==
    \A i \in DOMAIN reordered :
        reordered[i].role = "tool"
        => reordered[i].tool_call_id \in AssistantToolCallIds(Expand(history))

\* The tool results of the reordered output stand in the order in which
\* their calls were declared.
ResultsInDeclaredOrder ==
    \A i, j \in DOMAIN reordered :
        LET a == reordered[i].tool_call_id
            b == reordered[j].tool_call_id
            declared == AssistantToolCallIds(Expand(history))
        IN  (/\ i < j
             /\ reordered[i].role = "tool" /\ reordered[j].role = "tool"
             /\ a \in declared /\ b \in declared)
            => DeclaredAt(a) <= DeclaredAt(b)

\* C37: message reordering consumes tool results in the order their calls
\* were declared and drops every tool message whose tool_call_id does not
\* correspond to any declared tool call: no such unmatched tool message
\* appears in the reordered output.
C37_UnmatchedToolDropped ==
    reordered # <<>> => NoUnmatchedToolMessage /\ ResultsInDeclaredOrder

\* A history with a declared call, its result and a tool message of an
\* undeclared call was reordered.
C37_Witness ==
    /\ reordered # <<>>
    /\ \E i, j, k \in DOMAIN history :
          /\ history[i].role = "assistant" /\ history[i].tool_calls = <<"x">>
          /\ history[j].role = "tool" /\ history[j].tool_call_id = "x"
          /\ history[k].role = "tool" /\ history[k].tool_call_id = "y"

\* The rows after importing the accounts into the current pool.
Imported(accounts) == ImportAccounts_loop(tokens, nextId, accounts, {}).tokens

\* C38: importing an account whose refresh token already exists creates no
\* second row and fills optional metadata (email, api_key, id_token,
\* total_limit, used_limit) only when the stored value was previously empty:
\* an existing non-empty metadata value, and the existing status, are
\* unchanged by the re-import.
C38_ReimportKeepsMetadata ==
    \A accounts \in BatchInputs :
        LET after == Imported(accounts)
        IN  /\ \A a, b \in DOMAIN after :
                  after[a].refresh_token = after[b].refresh_token => a = b
            /\ \A id \in DOMAIN tokens :
                  /\ id \in DOMAIN after
                  /\ after[id].status = tokens[id].status
                  /\ tokens[id].email # NoToken
                        => after[id].email = tokens[id].email
                  /\ tokens[id].api_key # NoToken
                        => after[id].api_key = tokens[id].api_key
                  /\ tokens[id].id_token # NoToken
                        => after[id].id_token = tokens[id].id_token
                  /\ tokens[id].total_limit # Null
                        => after[id].total_limit = tokens[id].total_limit
                  /\ tokens[id].used_limit # Null
                        => after[id].used_limit = tokens[id].used_limit

\* An account that the operator disabled was imported with metadata and then
\* imported again: its api_key comes from the first import, its used_limit
\* of 0 from the second.
C38_Witness ==
    \E id \in DOMAIN tokens :
        /\ tokens[id].refresh_token = "rt-a"
        /\ tokens[id].status = "disabled"
        /\ tokens[id].api_key = "key-1"
        /\ tokens[id].used_limit = 0

\* Request r starts a refresh exchange in this step.
PresentsToken(r) == calls'[r].refresh = calls[r].refresh + 1

\* C39: the refresh token a dispatch attempt presents to the refresh
\* endpoint equals the refresh token stored for that account at the moment
\* the attempt holds the account lock; a copy captured at selection time
\* that has since been replaced (rotated by another refresh of the same
\* account) or whose account has since been deleted/merged is never used.
C39_PresentsStoredToken ==
    [][\A r \in Reqs :
          PresentsToken(r)
          => LET candidate == cands'[r][idx'[r]]
             IN  /\ locks'[candidate.id] = r
                 /\ candidate.id \in DOMAIN tokens'
                 /\ tokens'[candidate.id].refresh_token = candidate.refresh_token]_vars

\* A request that waited for the lock of its candidate holds it and is in
\* its refresh exchange, after an admin refresh of an account returned.
C39_Witness ==
    \E r \in Reqs :
        /\ pc[r] = "refreshing"
        /\ calls[r].refresh = 1
        /\ dispatched = 2
        /\ rf["admin"].pc = "idle" /\ rf["admin"].success

\* A row that _select_pool_candidates does not select at the current time: a
\* dispatch in flight on it selected it before the row came to this state.
Unselectable(row) ==
    \/ row.status \in {"disabled", "blocked", "quota_exhausted"}
    \/ row.status = "cooldown" /\ row.cooldown_until > now

\* C40: an account that an operator disables or blocks (or that another
\* request moves to cooldown/blocked/quota_exhausted) after a dispatch has
\* selected it but before that dispatch's attempt completes is not set back
\* to active by that dispatch: the ok-outcome write of a request (the write
\* that counts a use) never overwrites a disabled or blocked status set
\* concurrently.
C40_OkWriteKeepsDisabled ==
    [][\A id \in DOMAIN tokens \cap DOMAIN tokens' :
          (/\ Unselectable(tokens[id])
           /\ tokens'[id].use_count = tokens[id].use_count + 1)
          => tokens'[id].status = tokens[id].status]_vars

\* A dispatch holds the lock of the account it selected and is still in its
\* attempt, and the operator has disabled the account since.
C40_Witness ==
    \E r \in Reqs :
        /\ pc[r] = "refreshing"
        /\ cands[r] # <<>>
        /\ cands[r][idx[r]].id \in DOMAIN tokens
        /\ locks[cands[r][idx[r]].id] = r
        /\ tokens[cands[r][idx[r]].id].status = "disabled"

====
